---- MODULE Spec2Model ----
(***************************************************************************)
(* m1as: the asset lifecycle manager (core/assets/assetManager.ts), its    *)
(* Mongo repository, the signed URL service and the signed file delivery   *)
(* handler of the Express adapter, as a state machine.                     *)
(*                                                                         *)
(* Every request is served by an async function; it suspends only at the   *)
(* awaits on the storage, repository and cache ports, so one action is the *)
(* code from one await's completion up to the next await.                  *)
(***************************************************************************)
EXTENDS Integers, Sequences, FiniteSets, TLC

(***************************************************************************)
(* Bounds                                                                  *)
(***************************************************************************)
\* upload() calls made in one behaviour (each draws at most one randomUUID)
MaxUploads == 1
\* the clock advances at most this many seconds (Date.now() is in ms)
MaxSeconds == 1
MaxChecks == 5
MaxTicks == 3
MaxRequests == 3
MaxNameLen == 4

\* requests the event loop serves concurrently
Requests == {"r1", "r2"}

(***************************************************************************)
(* JavaScript values                                                       *)
(***************************************************************************)
Undefined == "<undefined>"
\* a value whose typeof is not "string" (a number sent as ownerId)
NonString == "<number>"
Null == [null |-> TRUE]

TypeOf(v) ==
    IF v = Undefined THEN "undefined"
    ELSE IF v = NonString THEN "number"
    ELSE "string"

\* String.prototype.trim on the owner ids of the model
Trim(s) == IF s \in {"", " "} THEN "" ELSE s

\* decimal digits, for template strings and generated tokens
Digits == <<"0", "1", "2", "3", "4", "5", "6", "7", "8", "9">>

RECURSIVE ToDecimal(_)
ToDecimal(n) ==
    IF n < 10 THEN <<Digits[n + 1]>>
    ELSE ToDecimal(n \div 10) \o <<Digits[(n % 10) + 1]>>

\* crypto.randomUUID(): the n-th draw; draws are pairwise distinct
randomUUID(n) == <<"i">> \o ToDecimal(n)

AssetIds == {randomUUID(n) : n \in 1..MaxUploads}

(***************************************************************************)
(* Configuration (config/m1asConfig.ts) and validation                     *)
(***************************************************************************)
\* Number(process.env.M1AS_MAX_FILE_SIZE_BYTES) with the variable unset is
\* NaN, which is falsy like 0
EnvMaxFileSizeBytes == 0
DefaultMaxFileSizeBytes == 10485760

allowedMimeTypes == {"image/png", "image/jpeg", "image/webp"}

maxFileSize ==
    IF EnvMaxFileSizeBytes # 0 THEN EnvMaxFileSizeBytes ELSE DefaultMaxFileSizeBytes

InputFaults ==
    {"MISSING_ASSET_BUFFER", "FILE_TYPE_RESTRICTED", "INVALID_FILE_SIZE",
     "FILE_SIZE_MISMATCH", "FILE_TOO_LARGE", "M1AS-USER-ID_MUST_NOT_BE_EMPTY"}

\* a mutant of validateUpload: the ceiling is tested before the size checks
validateUpload_ceilingFirst(input) ==
    IF ~input.buffer.defined \/ input.buffer.len = 0 THEN "MISSING_ASSET_BUFFER"
    ELSE IF input.mimeType = Undefined \/ input.mimeType \notin allowedMimeTypes
        THEN "FILE_TYPE_RESTRICTED"
    ELSE IF input.size > maxFileSize THEN "FILE_TOO_LARGE"
    ELSE IF input.size = 0 \/ input.size <= 0 THEN "INVALID_FILE_SIZE"
    ELSE IF input.size # input.buffer.len THEN "FILE_SIZE_MISMATCH"
    ELSE IF input.ownerId # Undefined
            /\ (TypeOf(input.ownerId) # "string" \/ Trim(input.ownerId) = "")
        THEN "M1AS-USER-ID_MUST_NOT_BE_EMPTY"
    ELSE "OK"

\* a mutant of validateUpload: the size-mismatch test is missing
validateUpload_noMismatch(input) ==
    IF ~input.buffer.defined \/ input.buffer.len = 0 THEN "MISSING_ASSET_BUFFER"
    ELSE IF input.mimeType = Undefined \/ input.mimeType \notin allowedMimeTypes
        THEN "FILE_TYPE_RESTRICTED"
    ELSE IF input.size = 0 \/ input.size <= 0 THEN "INVALID_FILE_SIZE"
    ELSE IF input.size > maxFileSize THEN "FILE_TOO_LARGE"
    ELSE IF input.ownerId # Undefined
            /\ (TypeOf(input.ownerId) # "string" \/ Trim(input.ownerId) = "")
        THEN "M1AS-USER-ID_MUST_NOT_BE_EMPTY"
    ELSE "OK"

\* validateUpload: the code of the PublicError it throws, or "OK"
validateUpload(input) ==
    IF ~input.buffer.defined \/ input.buffer.len = 0 THEN "MISSING_ASSET_BUFFER"
    ELSE IF input.mimeType = Undefined \/ input.mimeType \notin allowedMimeTypes
        THEN "FILE_TYPE_RESTRICTED"
    ELSE IF input.size = 0 \/ input.size <= 0 THEN "INVALID_FILE_SIZE"
    ELSE IF input.size # input.buffer.len THEN "FILE_SIZE_MISMATCH"
    ELSE IF input.size > maxFileSize THEN "FILE_TOO_LARGE"
    ELSE IF input.ownerId # Undefined
            /\ (TypeOf(input.ownerId) # "string" \/ Trim(input.ownerId) = "")
        THEN "M1AS-USER-ID_MUST_NOT_BE_EMPTY"
    ELSE "OK"

(***************************************************************************)
(* Display-name normalizer (core/utils/normalizeFilename.ts); a name is a  *)
(* sequence of characters                                                  *)
(***************************************************************************)
DEFAULT_MAX_LENGTH == 128
\* the characters SAFE_FILENAME_REGEX lets through: [a-zA-Z0-9._-], the upper
\* case by two of its letters
SafeChars ==
    {"a", "b", "c", "d", "e", "f", "g", "h", "i", "j", "k", "l", "m", "n", "o", "p", "q",
     "r", "s", "t", "u", "v", "w", "x", "y", "z", "A", "Z",
     "0", "1", "2", "3", "4", "5", "6", "7", "8", "9", ".", "_", "-"}
ControlChars == {"<LF>", "<DEL>"}
PathSeparators == {"/", "\\"}

\* String.prototype.normalize("NFKC") on one character: the fullwidth solidus
\* U+FF0F is compatibility-equivalent to "/"
NFKC(c) == IF c = "<U+FF0F>" THEN "/" ELSE c

\* name.replace(PATH_SEPARATORS_REGEX, "_"): the regex has no g flag, so only
\* the first separator is replaced
replaceFirstSeparator(s) ==
    LET hits == {i \in 1..Len(s) : s[i] \in PathSeparators}
        first == CHOOSE i \in hits : \A j \in hits : i <= j
    IN  IF hits = {} THEN s ELSE [s EXCEPT ![first] = "_"]

\* a mutant of applyAllowlist: the name is left as it is
applyAllowlist_skipped(s) == s

\* name.replace(SAFE_FILENAME_REGEX, "_")
applyAllowlist(s) == [i \in 1..Len(s) |-> IF s[i] \in SafeChars THEN s[i] ELSE "_"]

\* name.replace(/_+/g, "_")
collapseUnderscores(s) ==
    LET keep == {i \in 1..Len(s) : ~(s[i] = "_" /\ i > 1 /\ s[i - 1] = "_")}
        F[i \in 0..Len(s)] ==
            IF i = 0 THEN <<>>
            ELSE IF i \in keep THEN Append(F[i - 1], s[i]) ELSE F[i - 1]
    IN  F[Len(s)]

\* a mutant of trimDotsUnderscores: only the trailing run is removed
trimDotsUnderscores_trailingOnly(s) ==
    LET inner == {i \in 1..Len(s) : s[i] \notin {"_", "."}}
        hi == CHOOSE i \in inner : \A j \in inner : j <= i
    IN  IF inner = {} THEN <<>> ELSE SubSeq(s, 1, hi)

\* name.replace(/^[_\.]+|[_\.]+$/g, "")
trimDotsUnderscores(s) ==
    LET inner == {i \in 1..Len(s) : s[i] \notin {"_", "."}}
        lo == CHOOSE i \in inner : \A j \in inner : i <= j
        hi == CHOOSE i \in inner : \A j \in inner : j <= i
    IN  IF inner = {} THEN <<>> ELSE SubSeq(s, lo, hi)

\* generateFallbackName(ext): `file_${crypto.randomUUID()}${ext}`
generateFallbackName(token, ext) == <<"f", "i", "l", "e", "_">> \o token \o ext

\* normalizeFilename(input, {maxLength, fallbackExtension, mode}); token is the
\* random UUID a fallback name would use. `input ?? ""` makes an undefined or
\* null input the empty string, so both are given as the empty sequence
normalizeFilename(input, maxLength, fallbackExtension, mode, token) ==
    LET original == input
        fallback(reason) ==
            [filename |-> generateFallbackName(token, fallbackExtension),
             original |-> original, sanitized |-> TRUE, reason |-> reason]
        n1 == [i \in 1..Len(original) |-> NFKC(original[i])]
        n2 == SelectSeq(n1, LAMBDA c : c \notin ControlChars)
        hasSep == \E i \in 1..Len(n2) : n2[i] \in PathSeparators
        n3 == IF hasSep THEN replaceFirstSeparator(n2) ELSE n2
        n4 == applyAllowlist(n3)
        n5 == collapseUnderscores(n4)
        n6 == trimDotsUnderscores(n5)
        n7 == IF Len(n6) > maxLength THEN SubSeq(n6, 1, maxLength) ELSE n6
    IN  IF original = <<>> THEN fallback("empty_filename")
        ELSE IF hasSep /\ mode = "strict" THEN fallback("path_separators_detected")
        ELSE IF n7 = <<>> THEN fallback("fully_sanitized_empty")
        ELSE [filename |-> n7, original |-> original,
              sanitized |-> (n7 # original), reason |-> Undefined]

DotBin == <<".", "b", "i", "n">>

(***************************************************************************)
(* Asset records and the manager's pure helpers                            *)
(***************************************************************************)
\* a mutant of buildAsset: the locator is derived from the id, not taken from
\* what storage.save returned
buildAsset_pathFromId(id, displayName, input, stored, t) ==
    [id |-> id,
     displayName |-> displayName,
     mimeType |-> input.mimeType,
     size |-> input.size,
     storagePath |-> id,
     publicUrl |-> stored.publicUrl,
     ownerId |-> input.ownerId,
     visibility |-> IF input.visibility = Undefined THEN "private" ELSE input.visibility,
     createdAt |-> t,
     updatedAt |-> t]

\* the AssetRecord upload builds once storage.save has returned
buildAsset(id, displayName, input, stored, t) ==
    [id |-> id,
     displayName |-> displayName,
     mimeType |-> input.mimeType,
     size |-> input.size,
     storagePath |-> stored.storagePath,
     publicUrl |-> stored.publicUrl,
     ownerId |-> input.ownerId,
     visibility |-> IF input.visibility = Undefined THEN "private" ELSE input.visibility,
     createdAt |-> t,
     updatedAt |-> t]

\* a mutant of toPublicMetadata: the owner is left in the projection
toPublicMetadata_withOwner(asset) ==
    [id |-> asset.id,
     displayName |-> asset.displayName,
     mimeType |-> asset.mimeType,
     size |-> asset.size,
     createdAt |-> asset.createdAt,
     ownerId |-> asset.ownerId]

toPublicMetadata(asset) ==
    [id |-> asset.id,
     displayName |-> asset.displayName,
     mimeType |-> asset.mimeType,
     size |-> asset.size,
     createdAt |-> asset.createdAt]

toPrivateMetadata(asset) ==
    [id |-> asset.id,
     displayName |-> asset.displayName,
     mimeType |-> asset.mimeType,
     size |-> asset.size,
     createdAt |-> asset.createdAt,
     ownerId |-> asset.ownerId,
     visibility |-> asset.visibility,
     updatedAt |-> asset.updatedAt]

\* a mutant of metadataRedacted: a requester with no identity is not redacted
metadataRedacted_anonymousTrusted(asset, requesterOwnerId) ==
    /\ asset.visibility = "private"
    /\ requesterOwnerId # Undefined
    /\ requesterOwnerId # asset.ownerId

\* getMetadataById: the test that selects the redacted projection
metadataRedacted(asset, requesterOwnerId) ==
    asset.visibility = "private" /\ requesterOwnerId # asset.ownerId

\* a mutant of fileForbidden: the owner comparison is inverted
fileForbidden_inverted(asset, requesterOwnerId) ==
    asset.visibility = "private" /\ requesterOwnerId = asset.ownerId

\* a mutant of fileForbidden: a private asset without an owner is refused to
\* every requester
fileForbidden_ownerless(asset, requesterOwnerId) ==
    /\ asset.visibility = "private"
    /\ (asset.ownerId = Undefined \/ requesterOwnerId # asset.ownerId)

\* getFileById: the built-in visibility invariant
fileForbidden(asset, requesterOwnerId) ==
    asset.visibility = "private" /\ requesterOwnerId # asset.ownerId

\* a mutant of needsRollback: the catch block never compensates
needsRollback_never(stored) == FALSE

\* a mutant of needsRollback: the catch block compensates without looking
needsRollback_always(stored) == TRUE

\* upload's catch block: `if (stored)`
needsRollback(stored) == stored # Null

\* a mutant of CacheWriteFailureCaught: the cache write sits in the outer try
CacheWriteFailureCaught_outerTry == FALSE

\* upload wraps `await this.cache?.set(saved)` in its own try/catch
CacheWriteFailureCaught == TRUE

(***************************************************************************)
(* MongoAssetRepo over the set of stored documents                         *)
(***************************************************************************)
repoCreate(docs, asset) == docs \cup {asset}

findById(docs, id) ==
    IF \E r \in docs : r.id = id THEN CHOOSE r \in docs : r.id = id ELSE Null

\* a mutant of deleteById: the filter matches no document
deleteById_matchesNone(docs, id) == docs

deleteById(docs, id) == {r \in docs : r.id # id}

(***************************************************************************)
(* Storage port and cache port                                             *)
(***************************************************************************)
\* the locator storage.save returns for the n-th stored blob
storagePathOf(n) == <<"p">> \o ToDecimal(n)

storageSave(blobs, path, input) ==
    blobs \cup {[storagePath |-> path, buffer |-> input.buffer, mimeType |-> input.mimeType]}

storageHas(blobs, path) == \E b \in blobs : b.storagePath = path

storageGet(blobs, path) ==
    LET b == CHOOSE x \in blobs : x.storagePath = path
    IN  [buffer |-> b.buffer, mimeType |-> b.mimeType]

storageDelete(blobs, path) == {b \in blobs : b.storagePath # path}

cacheGet(entries, id) ==
    IF \E r \in entries : r.id = id THEN CHOOSE r \in entries : r.id = id ELSE Null

cacheSet(entries, asset) == {r \in entries : r.id # asset.id} \cup {asset}

cacheDelete(entries, id) == {r \in entries : r.id # id}

(***************************************************************************)
(* Signed URL service (core/security/SignedUrlService.ts)                  *)
(***************************************************************************)
Secret == "m1as-sEcReT-kEy"

\* crypto.createHmac("sha256", secret).update(payload).digest("hex"), taken as
\* collision free: the digest determines the key and the payload
Hmac(secret, payload) == <<secret, payload>>

\* a mutant of sign: the payload has no separator
sign_noSeparator(assetId, expires) == Hmac(Secret, assetId \o ToDecimal(expires))

sign(assetId, expires) == Hmac(Secret, assetId \o <<":">> \o ToDecimal(expires))

\* a mutant of verify: the expiry is not looked at
verify_noExpiry(assetId, expires, sig, t) == sign(assetId, expires) = sig

\* a mutant of verify: the signature is refused from the expiry instant on
verify_atExpiry(assetId, expires, sig, t) ==
    IF t >= expires * 1000 THEN FALSE ELSE sign(assetId, expires) = sig

\* t is Date.now() in milliseconds
verify(assetId, expires, sig, t) ==
    IF t > expires * 1000 THEN FALSE ELSE sign(assetId, expires) = sig

\* a mutant of signedDeliveryDenied: the route relies on getFileById alone
signedDeliveryDenied_unchecked(asset) == FALSE

\* getFileSigned: the visibility invariant of the signed delivery route
signedDeliveryDenied(asset) == asset.visibility = "private"

(***************************************************************************)
(* State                                                                   *)
(***************************************************************************)
VARIABLES
    storage,      \* blobs the storage adapter holds
    repo,         \* documents of the asset collection
    cache,        \* entries of the cache
    hasCache,     \* whether the manager was constructed with a cache
    uploadCalls,  \* upload() calls made so far
    now,          \* Date.now(), in milliseconds
    pc,           \* per request: the await it is suspended at
    op,           \* per request: the method it runs and its arguments
    loc,          \* per request: the local variables of that method
    calls,        \* per request: the port calls the method has made so far
    result,       \* per request: what the method returned or threw
    deleteBegun,  \* ids for which some delete() found the record
    limiter,      \* the RateLimiter object, once constructed
    checked,      \* every check(key) made so far: its key, time and outcome
    server,       \* the server's rate-limit switch and its three limiters
    handled,      \* every request routed so far: the limiters that counted it
    logger        \* the logger the manager was constructed with

vars ==
    <<storage, repo, cache, hasCache, uploadCalls, now, pc, op, loc, calls,
      result, deleteBegun, limiter, checked, server, handled, logger>>

NoInput == [none |-> TRUE]
NoQuery == [none |-> TRUE]
\* `late` is history: the read was called after a delete of its id had
\* returned "deleted"; `logs` is history: the calls of this.log the method
\* has made so far
BlankLoc ==
    [stored |-> Null, asset |-> Null, err |-> Undefined, cleanupErr |-> Undefined,
     got |-> Null, phase |-> 0, late |-> FALSE, file |-> Null, logs |-> <<>>]
NoResult == [status |-> "none"]
NoLimiter == [none |-> TRUE]
NoServer == [none |-> TRUE]

Returned(v) == [status |-> "ok", value |-> v]
Thrown(e) == [status |-> "error", error |-> e]

Call(port, arg) == [port |-> port, arg |-> arg]

\* the optional fourth argument of `new AssetManager(...)`: no logger, one
\* that delivers every entry, one that throws on every entry
Loggers == {"none", "delivers", "throws"}

\* the state after construction, but for the logger
Constructed ==
    /\ storage = {}
    /\ repo = {}
    /\ cache = {}
    /\ hasCache \in BOOLEAN
    /\ uploadCalls = 0
    /\ now = 0
    /\ pc = [p \in Requests |-> "idle"]
    /\ op = [p \in Requests |-> [name |-> "none", id |-> <<>>, requester |-> Undefined,
                                 input |-> NoInput, query |-> NoQuery]]
    /\ loc = [p \in Requests |-> BlankLoc]
    /\ calls = [p \in Requests |-> <<>>]
    /\ result = [p \in Requests |-> NoResult]
    /\ deleteBegun = {}
    /\ limiter = NoLimiter
    /\ checked = <<>>
    /\ server = NoServer
    /\ handled = <<>>

\* the manager as m1asServer builds it by default: createLogger("console")
Init == Constructed /\ logger = "delivers"

\* the manager built with any logger
InitLogger == Constructed /\ logger \in Loggers

Free(p) == pc[p] \in {"idle", "done"}

(***************************************************************************)
(* AssetManager.log                                                        *)
(***************************************************************************)
LoggerError == "LoggerError"

\* a call of this.log that the method does not make
NoLog == [entry |-> Null, thrown |-> Undefined]

\* a mutant of log: the logger is called without the try around it
log_uncaught(lg, level, event) ==
    [entry |-> [level |-> level, event |-> event],
     thrown |-> IF lg = "throws" THEN LoggerError ELSE Undefined]

\* this.log(level, msg, {event, ...}): returns at once without a logger, and
\* catches what the logger throws. `entry` is the call, `thrown` what the call
\* throws into the method that made it
log(lg, level, event) ==
    [entry |-> [level |-> level, event |-> event], thrown |-> Undefined]

\* the calls of this.log after logs, once call l was made (or was not)
Logged(logs, l) == IF l.entry = Null THEN logs ELSE Append(logs, l.entry)

\* `this.log(...); return v`
ReturnAfterLog(l, v) == IF l.thrown # Undefined THEN Thrown(l.thrown) ELSE Returned(v)

\* `this.log(...); throw err`
ThrowAfterLog(l, err) == Thrown(IF l.thrown # Undefined THEN l.thrown ELSE err)

(***************************************************************************)
(* AssetManager.upload                                                     *)
(***************************************************************************)
\* a mutant of UploadReject: the bytes are saved before the input is validated
UploadReject_afterSave(lg, p, input, fault) ==
    /\ pc' = [pc EXCEPT ![p] = "done"]
    /\ result' = [result EXCEPT ![p] = Thrown(fault)]
    /\ loc' = [loc EXCEPT ![p] = BlankLoc]
    /\ calls' = [calls EXCEPT ![p] = <<Call("storage.save", <<>>)>>]
    /\ storage' = storageSave(storage, storagePathOf(uploadCalls + 1), input)

\* `this.validateUpload(input)` throws: upload() ends before its try block,
\* and before any call of this.log
UploadReject(lg, p, input, fault) ==
    /\ pc' = [pc EXCEPT ![p] = "done"]
    /\ result' = [result EXCEPT ![p] = Thrown(fault)]
    /\ loc' = [loc EXCEPT ![p] = BlankLoc]
    /\ calls' = [calls EXCEPT ![p] = <<>>]
    /\ UNCHANGED storage

\* the catch block of upload(), entered with error err after the calls logs of
\* this.log: with nothing to roll back it logs the failure and rethrows
UploadCatch(lg, p, err, logs) ==
    IF needsRollback(loc[p].stored)
    THEN /\ pc' = [pc EXCEPT ![p] = "u_rollback"]
         /\ loc' = [loc EXCEPT ![p].err = err, ![p].logs = logs]
         /\ UNCHANGED result
    ELSE LET failed == log(lg, "error", "UPLOAD_FAIL")
         IN  /\ pc' = [pc EXCEPT ![p] = "done"]
             /\ loc' = [loc EXCEPT ![p].err = err, ![p].logs = Logged(logs, failed)]
             /\ result' = [result EXCEPT ![p] = ThrowAfterLog(failed, err)]

\* the end of upload()'s try block, after the calls logs of this.log: it logs
\* the success and returns `saved`
UploadReturn(lg, p, saved, logs) ==
    LET succeeded == log(lg, "info", "UPLOAD_SUCCESS")
    IN  IF succeeded.thrown # Undefined
        THEN UploadCatch(lg, p, succeeded.thrown, Logged(logs, succeeded))
        ELSE /\ pc' = [pc EXCEPT ![p] = "done"]
             /\ loc' = [loc EXCEPT ![p].logs = Logged(logs, succeeded)]
             /\ result' = [result EXCEPT ![p] = Returned(saved)]

\* upload(input) up to the completion of `await this.storage.save(...)`, called
\* directly (name "upload") or by an HTTP handler serving request query
UploadBegin(lg, p, name, input, query) ==
    /\ Free(p)
    /\ uploadCalls < MaxUploads
    /\ uploadCalls' = uploadCalls + 1
    /\ op' = [op EXCEPT ![p] = [name |-> name, id |-> <<>>, requester |-> Undefined,
                                input |-> input, query |-> query]]
    /\ LET fault == validateUpload(input)
           id == randomUUID(uploadCalls + 1)
           norm == normalizeFilename(input.displayName, DEFAULT_MAX_LENGTH, DotBin,
                                     "sanitize", randomUUID(0))
           renamed == IF norm.sanitized THEN log(lg, "warn", "DISPLAY_NAME_SANITIZED")
                      ELSE NoLog
           logs == Logged(<<>>, renamed)
           stored == [storagePath |-> storagePathOf(uploadCalls + 1), publicUrl |-> Undefined]
           failed == log(lg, "error", "UPLOAD_FAIL")
       IN  IF fault # "OK"
           THEN UploadReject(lg, p, input, fault)
           ELSE IF renamed.thrown # Undefined
           THEN \* thrown before the try block
                /\ UNCHANGED storage
                /\ pc' = [pc EXCEPT ![p] = "done"]
                /\ result' = [result EXCEPT ![p] = Thrown(renamed.thrown)]
                /\ loc' = [loc EXCEPT ![p] = [BlankLoc EXCEPT !.logs = logs]]
                /\ calls' = [calls EXCEPT ![p] = <<>>]
           ELSE \/ \* storage.save resolves
                   /\ storage' = storageSave(storage, stored.storagePath, input)
                   /\ pc' = [pc EXCEPT ![p] = "u_create"]
                   /\ result' = [result EXCEPT ![p] = NoResult]
                   /\ loc' = [loc EXCEPT ![p] =
                                [BlankLoc EXCEPT !.stored = stored,
                                    !.asset = buildAsset(id, norm.filename, input, stored, now),
                                    !.logs = logs]]
                   /\ calls' = [calls EXCEPT ![p] = <<Call("storage.save", <<>>)>>]
                \/ \* storage.save rejects: the catch block runs with stored unset
                   /\ UNCHANGED storage
                   /\ IF needsRollback(Null)
                      THEN /\ pc' = [pc EXCEPT ![p] = "u_rollback"]
                           /\ result' = [result EXCEPT ![p] = NoResult]
                           /\ loc' = [loc EXCEPT ![p] =
                                        [BlankLoc EXCEPT !.err = "StorageSaveError",
                                                         !.logs = logs]]
                      ELSE /\ pc' = [pc EXCEPT ![p] = "done"]
                           /\ result' = [result EXCEPT ![p] =
                                            ThrowAfterLog(failed, "StorageSaveError")]
                           /\ loc' = [loc EXCEPT ![p] =
                                        [BlankLoc EXCEPT !.err = "StorageSaveError",
                                                         !.logs = Logged(logs, failed)]]
                   /\ calls' = [calls EXCEPT ![p] = <<Call("storage.save", <<>>)>>]
    /\ UNCHANGED <<repo, cache, hasCache, logger, server, handled, limiter, checked, now, deleteBegun>>

\* a caller invokes upload(input) on the manager
UploadCall(lg, p, input) == UploadBegin(lg, p, "upload", input, NoQuery)

\* a mutant of UploadCreate: the record is put in the cache before
\* repository.create has resolved
UploadCreate_cachedEarly(lg, p) ==
    /\ pc[p] = "u_create"
    /\ calls' = [calls EXCEPT ![p] = Append(@, Call("repository.create", loc[p].asset.id))]
    /\ cache' = IF hasCache THEN cacheSet(cache, loc[p].asset) ELSE cache
    /\ \/ /\ repo' = repoCreate(repo, loc[p].asset)
          /\ UploadReturn(lg, p, loc[p].asset, loc[p].logs)
       \/ /\ UNCHANGED repo
          /\ UploadCatch(lg, p, "RepositoryCreateError", loc[p].logs)
    /\ UNCHANGED <<storage, hasCache, logger, server, handled, limiter, checked, uploadCalls, now, op, deleteBegun>>

\* `await this.repository.create(asset)` completes
UploadCreate(lg, p) ==
    /\ pc[p] = "u_create"
    /\ calls' = [calls EXCEPT ![p] = Append(@, Call("repository.create", loc[p].asset.id))]
    /\ \/ /\ repo' = repoCreate(repo, loc[p].asset)
          /\ IF hasCache
             THEN /\ pc' = [pc EXCEPT ![p] = "u_cache"]
                  /\ UNCHANGED <<result, loc>>
             ELSE UploadReturn(lg, p, loc[p].asset, loc[p].logs)
       \/ /\ UNCHANGED repo
          /\ UploadCatch(lg, p, "RepositoryCreateError", loc[p].logs)
    /\ UNCHANGED <<storage, cache, hasCache, logger, server, handled, limiter, checked, uploadCalls, now, op, deleteBegun>>

\* `await this.cache?.set(saved)` completes; what its catch block logs is
\* logged inside the outer try block
UploadCacheSet(lg, p) ==
    /\ pc[p] = "u_cache"
    /\ calls' = [calls EXCEPT ![p] = Append(@, Call("cache.set", loc[p].asset.id))]
    /\ \/ /\ cache' = cacheSet(cache, loc[p].asset)
          /\ UploadReturn(lg, p, loc[p].asset, loc[p].logs)
       \/ /\ UNCHANGED cache
          /\ IF CacheWriteFailureCaught
             THEN LET warned == log(lg, "warn", "CACHE_FAIL")
                  IN  IF warned.thrown # Undefined
                      THEN UploadCatch(lg, p, warned.thrown, Logged(loc[p].logs, warned))
                      ELSE UploadReturn(lg, p, loc[p].asset, Logged(loc[p].logs, warned))
             ELSE UploadCatch(lg, p, "CacheError", loc[p].logs)
    /\ UNCHANGED <<storage, repo, hasCache, logger, server, handled, limiter, checked, uploadCalls, now, op, deleteBegun>>

\* the error upload() rethrows after the rollback
uploadRethrown(err, cleanupErr) == err

\* `await this.storage.delete(stored.storagePath)` of the rollback completes;
\* the catch block then logs the failure and rethrows
UploadRollback(lg, p) ==
    /\ pc[p] = "u_rollback"
    /\ calls' = [calls EXCEPT ![p] =
                    Append(@, Call("storage.delete", loc[p].stored.storagePath))]
    /\ pc' = [pc EXCEPT ![p] = "done"]
    /\ LET failed == log(lg, "error", "UPLOAD_FAIL")
       IN  /\ \/ /\ storage' = storageDelete(storage, loc[p].stored.storagePath)
                 /\ loc' = [loc EXCEPT ![p].logs = Logged(@, failed)]
                 /\ result' = [result EXCEPT ![p] =
                        ThrowAfterLog(failed, uploadRethrown(loc[p].err, Undefined))]
              \/ \* the cleanup throws too: it is logged to the console and dropped
                 /\ UNCHANGED storage
                 /\ loc' = [loc EXCEPT ![p].logs = Logged(@, failed),
                                       ![p].cleanupErr = "StorageDeleteError"]
                 /\ result' = [result EXCEPT ![p] =
                        ThrowAfterLog(failed, uploadRethrown(loc[p].err, "StorageDeleteError"))]
    /\ UNCHANGED <<repo, cache, hasCache, logger, server, handled, limiter, checked, uploadCalls, now, op, deleteBegun>>

(***************************************************************************)
(* AssetManager.get, getMetadataById, getFileById                          *)
(***************************************************************************)
\* where get(id) first suspends: `await this.cache?.get(id)` with a cache,
\* `await this.repository.findById(id)` without one
\* a mutant of GetEntry: get(id) reads the repository first
GetEntry_repoFirst == "g_find"

GetEntry == IF hasCache THEN "g_cache" ELSE "g_find"

ReadOps == {"get", "getMetadataById", "getFileById"}

\* what getMetadataById and getFileById log when `await this.get(id)` has
\* returned asset; get(id) itself logs nothing
readLog(lg, name, asset, requesterOwnerId) ==
    IF name = "getMetadataById"
    THEN IF asset # Null /\ metadataRedacted(asset, requesterOwnerId)
         THEN log(lg, "info", "METADATA_REDACTED")
         ELSE NoLog
    ELSE IF name = "getFileById"
    THEN IF asset = Null THEN log(lg, "info", "FILE_GET_NOT_FOUND")
         ELSE IF fileForbidden(asset, requesterOwnerId)
              THEN log(lg, "warn", "FILE_GET_FORBIDDEN")
              ELSE NoLog
    ELSE NoLog

\* getFileById after `await this.get(id)` returned asset, for requesterOwnerId
FileAfterGet(lg, p, asset, requesterOwnerId) ==
    LET l == readLog(lg, "getFileById", asset, requesterOwnerId)
    IN  IF asset = Null
        THEN /\ pc' = [pc EXCEPT ![p] = "done"]
             /\ result' = [result EXCEPT ![p] = ReturnAfterLog(l, [status |-> "not_found"])]
        ELSE IF fileForbidden(asset, requesterOwnerId)
        THEN /\ pc' = [pc EXCEPT ![p] = "done"]
             /\ result' = [result EXCEPT ![p] = ReturnAfterLog(l, [status |-> "forbidden"])]
        ELSE /\ pc' = [pc EXCEPT ![p] = "file_read"]
             /\ UNCHANGED result

\* getFileSigned after its own `await this.options.assetManager.get(id)`
SignedAfterGet(lg, p, asset) ==
    IF asset = Null
    THEN /\ pc' = [pc EXCEPT ![p] = "done"]
         /\ result' = [result EXCEPT ![p] = Thrown("NOT_FOUND")]
    ELSE IF signedDeliveryDenied(asset)
    THEN /\ pc' = [pc EXCEPT ![p] = "done"]
         /\ result' = [result EXCEPT ![p] = Thrown("ACCESS_DENIED")]
    ELSE \* `await this.options.assetManager.getFileById(id)` begins
         /\ pc' = [pc EXCEPT ![p] = GetEntry]
         /\ result' = [result EXCEPT ![p] = NoResult]

\* getFileSigned after the get(id) inside getFileById(id), which it calls
\* without a requester; any status but "ok" becomes NOT_FOUND
SignedFileAfterGet(lg, p, asset) ==
    LET l == readLog(lg, "getFileById", asset, Undefined)
    IN  IF asset = Null \/ fileForbidden(asset, Undefined)
        THEN /\ pc' = [pc EXCEPT ![p] = "done"]
             /\ result' = [result EXCEPT ![p] = ThrowAfterLog(l, "NOT_FOUND")]
        ELSE /\ pc' = [pc EXCEPT ![p] = "file_read"]
             /\ result' = [result EXCEPT ![p] = NoResult]

\* getSignedUrl: `m1asConfig.signedUrl?.defaultTTL ?? 300`; the configuration
\* has no signedUrl entry
DefaultTTL == 300

\* getSignedUrl: the ttl taken from req.query.ttl, a positive integer or else
\* the default
signedUrlTtl(ttl) == IF ttl.kind = "num" /\ ttl.n > 0 THEN ttl.n ELSE DefaultTTL

\* a mutant of signedUrlDenied: a signed URL is issued to every requester
signedUrlDenied_never(asset, requesterOwnerId) == FALSE

\* getSignedUrl: "enforce visibility"
signedUrlDenied(asset, requesterOwnerId) ==
    asset.visibility = "private" /\ requesterOwnerId # asset.ownerId

\* getSignedUrl after its `await this.options.assetManager.get(id)`. The url
\* `/assets/${id}/file/signed?expires=${expires}&sig=${sig}` is kept as the
\* three values the router and the query parser take out of it again
SignedUrlAfterGet(lg, p, asset) ==
    /\ pc' = [pc EXCEPT ![p] = "done"]
    /\ result' = [result EXCEPT ![p] =
          IF asset = Null THEN Thrown("NOT_FOUND")
          ELSE IF signedUrlDenied(asset, op[p].requester) THEN Thrown("ACCESS_DENIED")
          ELSE LET expires == (now \div 1000) + signedUrlTtl(op[p].query.ttl)
               IN  Returned([url |-> [id |-> asset.id, expires |-> expires,
                                      sig |-> sign(asset.id, expires)],
                             expires |-> expires])]

\* the code that runs when `await this.get(id)` returns asset to its caller
AfterGet(lg, p, asset) ==
    /\ loc' = [loc EXCEPT ![p].got = asset,
                          ![p].logs =
                              Logged(@, readLog(lg,
                                         IF op[p].name = "getFileSigned" /\ loc[p].phase = 2
                                         THEN "getFileById" ELSE op[p].name,
                                         asset, op[p].requester)),
                          ![p].phase = IF op[p].name = "getFileSigned" /\ loc[p].phase = 1
                                          /\ asset # Null /\ ~signedDeliveryDenied(asset)
                                       THEN 2
                                       ELSE IF op[p].name = "getTwice" THEN 2 ELSE @]
    /\ CASE op[p].name = "get" ->
              /\ pc' = [pc EXCEPT ![p] = "done"]
              /\ result' = [result EXCEPT ![p] = Returned(asset)]
         [] op[p].name = "getMetadataById" ->
              /\ pc' = [pc EXCEPT ![p] = "done"]
              /\ result' = [result EXCEPT ![p] =
                    IF asset = Null THEN Returned(Null)
                    ELSE IF metadataRedacted(asset, op[p].requester)
                         THEN ReturnAfterLog(readLog(lg, "getMetadataById", asset,
                                                     op[p].requester),
                                             toPublicMetadata(asset))
                         ELSE Returned(toPrivateMetadata(asset))]
         [] op[p].name = "getFileById" -> FileAfterGet(lg, p, asset, op[p].requester)
         [] op[p].name = "getSignedUrl" -> SignedUrlAfterGet(lg, p, asset)
         [] op[p].name = "getFileSigned" /\ loc[p].phase = 1 -> SignedAfterGet(lg, p, asset)
         [] op[p].name = "getFileSigned" /\ loc[p].phase = 2 -> SignedFileAfterGet(lg, p, asset)
         [] op[p].name = "getTwice" /\ loc[p].phase = 1 ->
              \* the caller keeps the first value and calls get(id) again
              /\ pc' = [pc EXCEPT ![p] = GetEntry]
              /\ result' = [result EXCEPT ![p] = Returned(asset)]
         [] op[p].name = "getTwice" /\ loc[p].phase = 2 ->
              /\ pc' = [pc EXCEPT ![p] = "done"]
              /\ result' = [result EXCEPT ![p] = Returned(asset)]

\* some request's last call was delete(id), and it returned "deleted"
DeleteReturned(id) ==
    \E q \in Requests :
        /\ op[q].name = "delete" /\ op[q].id = id /\ pc[q] = "done"
        /\ result[q] = Returned([status |-> "deleted"])

\* a caller invokes one of the read methods, which calls get(id) at once.
\* get(id) itself takes no requester
ReadCall(p, name, id, requester) ==
    /\ Free(p)
    /\ name \in ReadOps
    /\ name = "get" => requester = Undefined
    /\ op' = [op EXCEPT ![p] = [name |-> name, id |-> id, requester |-> requester,
                                input |-> NoInput, query |-> NoQuery]]
    /\ pc' = [pc EXCEPT ![p] = GetEntry]
    /\ loc' = [loc EXCEPT ![p] = [BlankLoc EXCEPT !.late = DeleteReturned(id)]]
    /\ calls' = [calls EXCEPT ![p] = <<>>]
    /\ result' = [result EXCEPT ![p] = NoResult]
    /\ UNCHANGED <<storage, repo, cache, hasCache, logger, server, handled, limiter, checked, uploadCalls, now, deleteBegun>>

\* a caller that calls get(id) and, when it has returned, get(id) once more;
\* until the second call ends, result holds what the first returned
GetTwiceCall(p, id) ==
    /\ Free(p)
    /\ op' = [op EXCEPT ![p] = [name |-> "getTwice", id |-> id, requester |-> Undefined,
                                input |-> NoInput, query |-> NoQuery]]
    /\ pc' = [pc EXCEPT ![p] = GetEntry]
    /\ loc' = [loc EXCEPT ![p] = [BlankLoc EXCEPT !.phase = 1]]
    /\ calls' = [calls EXCEPT ![p] = <<>>]
    /\ result' = [result EXCEPT ![p] = NoResult]
    /\ UNCHANGED <<storage, repo, cache, hasCache, logger, server, handled, limiter, checked, uploadCalls, now, deleteBegun>>

\* get(): `await this.cache?.get(id)` completes
GetCacheGet(lg, p) ==
    /\ pc[p] = "g_cache"
    /\ calls' = [calls EXCEPT ![p] = Append(@, Call("cache.get", op[p].id))]
    /\ \/ /\ cacheGet(cache, op[p].id) # Null
          /\ AfterGet(lg, p, cacheGet(cache, op[p].id))
       \/ /\ cacheGet(cache, op[p].id) = Null
          /\ pc' = [pc EXCEPT ![p] = "g_find"]
          /\ UNCHANGED <<loc, result>>
       \/ \* cache.get throws: get() has no try around it
          /\ pc' = [pc EXCEPT ![p] = "done"]
          /\ result' = [result EXCEPT ![p] = Thrown("CacheError")]
          /\ UNCHANGED loc
    /\ UNCHANGED <<storage, repo, cache, hasCache, logger, server, handled, limiter, checked, uploadCalls, now, op, deleteBegun>>

\* get(): `await this.repository.findById(id)` completes
GetFind(lg, p) ==
    /\ pc[p] = "g_find"
    /\ calls' = [calls EXCEPT ![p] = Append(@, Call("repository.findById", op[p].id))]
    /\ \/ LET asset == findById(repo, op[p].id)
          IN  IF asset # Null /\ hasCache
              THEN /\ pc' = [pc EXCEPT ![p] = "g_set"]
                   /\ loc' = [loc EXCEPT ![p].got = asset]
                   /\ UNCHANGED result
              ELSE AfterGet(lg, p, asset)
       \/ /\ pc' = [pc EXCEPT ![p] = "done"]
          /\ result' = [result EXCEPT ![p] = Thrown("RepositoryFindError")]
          /\ UNCHANGED loc
    /\ UNCHANGED <<storage, repo, cache, hasCache, logger, server, handled, limiter, checked, uploadCalls, now, op, deleteBegun>>

\* a mutant of GetCacheSet: the cache is given the public projection
GetCacheSet_projection(lg, p) ==
    /\ pc[p] = "g_set"
    /\ calls' = [calls EXCEPT ![p] = Append(@, Call("cache.set", op[p].id))]
    /\ \/ cache' = cacheSet(cache, toPublicMetadata(loc[p].got))
       \/ UNCHANGED cache
    /\ AfterGet(lg, p, loc[p].got)
    /\ UNCHANGED <<storage, repo, hasCache, logger, server, handled, limiter, checked, uploadCalls, now, op, deleteBegun>>

\* get(): `await this.cache?.set(asset)` completes; a throw is caught
GetCacheSet(lg, p) ==
    /\ pc[p] = "g_set"
    /\ calls' = [calls EXCEPT ![p] = Append(@, Call("cache.set", op[p].id))]
    /\ \/ cache' = cacheSet(cache, loc[p].got)
       \/ UNCHANGED cache
    /\ AfterGet(lg, p, loc[p].got)
    /\ UNCHANGED <<storage, repo, hasCache, logger, server, handled, limiter, checked, uploadCalls, now, op, deleteBegun>>

\* the errors storage.get rejects with: one whose code is ENOENT, one whose
\* message holds "FileNotFound", and one that is neither
StorageGetErrors == {"ENOENT", "FileNotFoundError", "StorageReadError"}
errCode(err) == IF err = "ENOENT" THEN "ENOENT" ELSE Undefined
errMessageIncludesFileNotFound(err) == err = "FileNotFoundError"

\* what `await this.storage.get(path)` can end in: the file when the bytes are
\* there; a not-found error or an empty result when they are not; any other
\* error at any time
storageGetOutcomes(files, path) ==
    (IF storageHas(files, path)
     THEN {[file |-> storageGet(files, path), err |-> Undefined]}
     ELSE {[file |-> Null, err |-> e] : e \in {"ENOENT", "FileNotFoundError", Undefined}})
        \cup {[file |-> Null, err |-> "StorageReadError"]}

\* a mutant of isBytesMissing: only the error code is looked at
isBytesMissing_codeOnly(err) == errCode(err) = "ENOENT"

\* getFileById's catch: `err.code === "ENOENT" || err.message?.includes("FileNotFound")`
isBytesMissing(err) == errCode(err) = "ENOENT" \/ errMessageIncludesFileNotFound(err)

\* getFileById: `await this.storage.get(asset.storagePath)` completes
FileRead(lg, p) ==
    /\ pc[p] = "file_read"
    /\ calls' = [calls EXCEPT ![p] = Append(@, Call("storage.get", loc[p].got.storagePath))]
    /\ pc' = [pc EXCEPT ![p] = "done"]
    /\ \E o \in storageGetOutcomes(storage, loc[p].got.storagePath) :
          LET signed == op[p].name = "getFileSigned"
              missing == log(lg, "warn", "FILE_GET_NOT_FOUND")
              retrieved == log(lg, "info", "FILE_GET_SUCCESS")
              l == IF o.err # Undefined
                   THEN IF isBytesMissing(o.err) THEN missing ELSE NoLog
                   ELSE IF o.file = Null THEN missing ELSE retrieved
              notFound == IF signed THEN ThrowAfterLog(l, "NOT_FOUND")
                          ELSE ReturnAfterLog(l, [status |-> "not_found"])
          IN  /\ loc' = [loc EXCEPT ![p].err = o.err, ![p].file = o.file,
                                    ![p].logs = Logged(@, l)]
              /\ result' = [result EXCEPT ![p] =
                    IF o.err # Undefined
                    THEN IF isBytesMissing(o.err) THEN notFound ELSE Thrown(o.err)
                    ELSE IF o.file = Null THEN notFound
                    ELSE ReturnAfterLog(l, [status |-> "ok",
                                   file |-> [buffer |-> o.file.buffer,
                                             displayName |-> loc[p].got.displayName,
                                             mimeType |-> o.file.mimeType]])]
    /\ UNCHANGED <<storage, repo, cache, hasCache, logger, server, handled, limiter, checked, uploadCalls, now, op, deleteBegun>>

(***************************************************************************)
(* AssetManager.delete                                                     *)
(***************************************************************************)
\* a mutant of DeleteCall: the record is looked up through the cache first
DeleteCall_viaCache(lg, p, id) ==
    /\ Free(p)
    /\ op' = [op EXCEPT ![p] = [name |-> "delete", id |-> id, requester |-> Undefined,
                                input |-> NoInput, query |-> NoQuery]]
    /\ calls' = [calls EXCEPT ![p] =
                    <<Call("cache.get", id), Call("repository.findById", id)>>]
    /\ \/ LET asset == findById(repo, id)
              absent == IF asset = Null THEN log(lg, "info", "DELETE_NOT_FOUND") ELSE NoLog
          IN  /\ loc' = [loc EXCEPT ![p] = [BlankLoc EXCEPT !.asset = asset,
                                                           !.logs = Logged(<<>>, absent)]]
              /\ IF asset = Null
                 THEN /\ pc' = [pc EXCEPT ![p] = "done"]
                      /\ result' = [result EXCEPT ![p] =
                                        ReturnAfterLog(absent, [status |-> "not_found"])]
                      /\ UNCHANGED deleteBegun
                 ELSE /\ pc' = [pc EXCEPT ![p] = "d_storage"]
                      /\ result' = [result EXCEPT ![p] = NoResult]
                      /\ deleteBegun' = deleteBegun \cup {id}
       \/ \* findById rejects, outside the try block
          /\ loc' = [loc EXCEPT ![p] = BlankLoc]
          /\ pc' = [pc EXCEPT ![p] = "done"]
          /\ result' = [result EXCEPT ![p] = Thrown("RepositoryFindError")]
          /\ UNCHANGED deleteBegun
    /\ UNCHANGED <<storage, repo, cache, hasCache, logger, server, handled, limiter, checked, uploadCalls, now>>

\* delete(id) up to the completion of `await this.repository.findById(id)`.
\* delete takes the id alone: requester is history, the identity of the
\* caller on whose behalf it runs
deleteFor(lg, p, id, requester) ==
    /\ Free(p)
    /\ op' = [op EXCEPT ![p] = [name |-> "delete", id |-> id, requester |-> requester,
                                input |-> NoInput, query |-> NoQuery]]
    /\ calls' = [calls EXCEPT ![p] = <<Call("repository.findById", id)>>]
    /\ \/ LET asset == findById(repo, id)
              absent == IF asset = Null THEN log(lg, "info", "DELETE_NOT_FOUND") ELSE NoLog
          IN  /\ loc' = [loc EXCEPT ![p] = [BlankLoc EXCEPT !.asset = asset,
                                                           !.logs = Logged(<<>>, absent)]]
              /\ IF asset = Null
                 THEN /\ pc' = [pc EXCEPT ![p] = "done"]
                      /\ result' = [result EXCEPT ![p] =
                                        ReturnAfterLog(absent, [status |-> "not_found"])]
                      /\ UNCHANGED deleteBegun
                 ELSE /\ pc' = [pc EXCEPT ![p] = "d_storage"]
                      /\ result' = [result EXCEPT ![p] = NoResult]
                      /\ deleteBegun' = deleteBegun \cup {id}
       \/ \* findById rejects, outside the try block
          /\ loc' = [loc EXCEPT ![p] = BlankLoc]
          /\ pc' = [pc EXCEPT ![p] = "done"]
          /\ result' = [result EXCEPT ![p] = Thrown("RepositoryFindError")]
          /\ UNCHANGED deleteBegun
    /\ UNCHANGED <<storage, repo, cache, hasCache, logger, server, handled, limiter, checked, uploadCalls, now>>

\* the manager's delete(id) called directly
DeleteCall(lg, p, id) == deleteFor(lg, p, id, Undefined)

\* a mutant of ExpressDeleteCall: the route refuses a private asset to a
\* requester that is not its owner
ExpressDeleteCall_ownerOnly(lg, p, req) ==
    LET asset == findById(repo, req.params.id)
    IN  IF asset # Null /\ asset.visibility = "private" /\ req.ownerId # asset.ownerId
        THEN /\ Free(p)
             /\ op' = [op EXCEPT ![p] = [name |-> "delete", id |-> req.params.id,
                                         requester |-> req.ownerId,
                                         input |-> NoInput, query |-> NoQuery]]
             /\ calls' = [calls EXCEPT ![p] = <<Call("repository.findById", req.params.id)>>]
             /\ loc' = [loc EXCEPT ![p] = [BlankLoc EXCEPT !.asset = asset]]
             /\ pc' = [pc EXCEPT ![p] = "done"]
             /\ result' = [result EXCEPT ![p] = Thrown("ACCESS_DENIED")]
             /\ UNCHANGED <<storage, repo, cache, hasCache, logger, server, handled,
                            limiter, checked, uploadCalls, now, deleteBegun>>
        ELSE deleteFor(lg, p, req.params.id, req.ownerId)

\* ExpressAssetAdapter.delete(req, res): it reads req.params.id and nothing
\* else of the request, and awaits assetManager.delete(id); the response is
\* { success: true } unless the manager returned "not_found"
ExpressDeleteCall(lg, p, req) == deleteFor(lg, p, req.params.id, req.ownerId)

\* the catch block of delete(), entered with error err: it logs and rethrows
DeleteCatch(lg, p, err, logs) ==
    LET failed == log(lg, "error", "DELETE_FAIL")
    IN  /\ pc' = [pc EXCEPT ![p] = "done"]
        /\ loc' = [loc EXCEPT ![p].logs = Logged(logs, failed)]
        /\ result' = [result EXCEPT ![p] = ThrowAfterLog(failed, err)]

\* the end of delete()'s try block: it logs the success and returns "deleted"
DeleteReturn(lg, p) ==
    LET succeeded == log(lg, "info", "DELETE_SUCCESS")
    IN  IF succeeded.thrown # Undefined
        THEN DeleteCatch(lg, p, succeeded.thrown, Logged(loc[p].logs, succeeded))
        ELSE /\ pc' = [pc EXCEPT ![p] = "done"]
             /\ loc' = [loc EXCEPT ![p].logs = Logged(@, succeeded)]
             /\ result' = [result EXCEPT ![p] = Returned([status |-> "deleted"])]

\* a mutant of DeleteStorage: a failed storage.delete does not end the delete
DeleteStorage_goesOn(lg, p) ==
    /\ pc[p] = "d_storage"
    /\ calls' = [calls EXCEPT ![p] = Append(@, Call("storage.delete", loc[p].asset.storagePath))]
    /\ \/ storage' = storageDelete(storage, loc[p].asset.storagePath)
       \/ UNCHANGED storage
    /\ pc' = [pc EXCEPT ![p] = "d_repo"]
    /\ UNCHANGED <<result, loc>>
    /\ UNCHANGED <<repo, cache, hasCache, logger, server, handled, limiter, checked, uploadCalls, now, op, deleteBegun>>

\* `await this.storage.delete(asset.storagePath)` completes
DeleteStorage(lg, p) ==
    /\ pc[p] = "d_storage"
    /\ calls' = [calls EXCEPT ![p] = Append(@, Call("storage.delete", loc[p].asset.storagePath))]
    /\ \/ /\ storage' = storageDelete(storage, loc[p].asset.storagePath)
          /\ pc' = [pc EXCEPT ![p] = "d_repo"]
          /\ UNCHANGED <<result, loc>>
       \/ /\ UNCHANGED storage
          /\ DeleteCatch(lg, p, "StorageDeleteError", loc[p].logs)
    /\ UNCHANGED <<repo, cache, hasCache, logger, server, handled, limiter, checked, uploadCalls, now, op, deleteBegun>>

\* `await this.repository.deleteById(id)` completes
DeleteRepo(lg, p) ==
    /\ pc[p] = "d_repo"
    /\ calls' = [calls EXCEPT ![p] = Append(@, Call("repository.deleteById", op[p].id))]
    /\ \/ /\ repo' = deleteById(repo, op[p].id)
          /\ IF hasCache
             THEN /\ pc' = [pc EXCEPT ![p] = "d_cache"]
                  /\ UNCHANGED <<result, loc>>
             ELSE DeleteReturn(lg, p)
       \/ /\ UNCHANGED repo
          /\ DeleteCatch(lg, p, "RepositoryDeleteError", loc[p].logs)
    /\ UNCHANGED <<storage, cache, hasCache, logger, server, handled, limiter, checked, uploadCalls, now, op, deleteBegun>>

\* `await this.cache?.delete(id)` completes
DeleteCache(lg, p) ==
    /\ pc[p] = "d_cache"
    /\ calls' = [calls EXCEPT ![p] = Append(@, Call("cache.delete", op[p].id))]
    /\ \/ /\ cache' = cacheDelete(cache, op[p].id)
          /\ DeleteReturn(lg, p)
       \/ /\ UNCHANGED cache
          /\ DeleteCatch(lg, p, "CacheError", loc[p].logs)
    /\ UNCHANGED <<storage, repo, hasCache, logger, server, handled, limiter, checked, uploadCalls, now, op, deleteBegun>>

(***************************************************************************)
(* ExpressAssetAdapter.getFileSigned                                       *)
(***************************************************************************)
\* getFileSigned up to its first await: the query checks and verify() are
\* synchronous. query.expires is missing, not a number, or a number n
GetFileSignedCall(p, id, query) ==
    /\ Free(p)
    /\ op' = [op EXCEPT ![p] = [name |-> "getFileSigned", id |-> id,
                                requester |-> Undefined, input |-> NoInput,
                                query |-> query]]
    /\ calls' = [calls EXCEPT ![p] = <<>>]
    /\ loc' = [loc EXCEPT ![p] = [BlankLoc EXCEPT !.phase = 1]]
    /\ IF query.expires.kind = "missing" \/ query.sig = <<>>
       THEN /\ pc' = [pc EXCEPT ![p] = "done"]
            /\ result' = [result EXCEPT ![p] = Thrown("INVALID_SIGNATURE")]
       ELSE IF query.expires.kind = "nan"
       THEN /\ pc' = [pc EXCEPT ![p] = "done"]
            /\ result' = [result EXCEPT ![p] = Thrown("INVALID_SIGNATURE")]
       ELSE IF ~verify(id, query.expires.n, query.sig, now)
       THEN /\ pc' = [pc EXCEPT ![p] = "done"]
            /\ result' = [result EXCEPT ![p] = Thrown("SIGNATURE_INVALID")]
       ELSE /\ pc' = [pc EXCEPT ![p] = GetEntry]
            /\ result' = [result EXCEPT ![p] = NoResult]
    /\ UNCHANGED <<storage, repo, cache, hasCache, logger, server, handled, limiter, checked, uploadCalls, now, deleteBegun>>

\* m1asConfig.multipartAllowedFields
multipartAllowedFields == {"visibility"}

\* a mutant of expressVisibility: the form field is passed through
expressVisibility_passThrough(body) ==
    IF "visibility" \in body.keys THEN body.visibility ELSE "private"

\* upload handler: the visibility it hands to the manager; body.keys are the
\* form fields of the request and body.visibility the value of that field
expressVisibility(body) ==
    IF "visibility" \in multipartAllowedFields
        /\ "visibility" \in body.keys /\ body.visibility = "public"
    THEN "public"
    ELSE "private"

\* the AssetUploadInput the upload handler builds; multer sets no
\* original_display_name on req.file, so displayName is undefined
expressUploadInput(req) ==
    [buffer |-> req.file.buffer,
     displayName |-> <<>>,
     mimeType |-> IF req.detected # Undefined THEN req.detected ELSE req.file.mimetype,
     size |-> req.file.size,
     ownerId |-> req.ownerId,
     visibility |-> expressVisibility(req.body)]

\* ExpressAssetAdapter.upload up to the completion of storage.save in the
\* manager: multer, the checks of the parsed request and the MIME detection
\* touch nothing the other requests see
ExpressUploadCall(p, req) ==
    IF req.multer # "ok" \/ ~req.hasFile \/ req.body.keys \ multipartAllowedFields # {}
    THEN /\ Free(p)
         /\ op' = [op EXCEPT ![p] = [name |-> "expressUpload", id |-> <<>>,
                                     requester |-> Undefined, input |-> NoInput,
                                     query |-> req]]
         /\ pc' = [pc EXCEPT ![p] = "done"]
         /\ result' = [result EXCEPT ![p] =
                IF req.multer = "MulterError" THEN Thrown("RUN_MULTER_ERROR")
                ELSE IF req.multer # "ok" THEN Thrown("MulterFailure")
                ELSE IF ~req.hasFile THEN Thrown("MISSING_FILE_FIELD")
                ELSE Thrown("INVALID_MULTIPART")]
         /\ loc' = [loc EXCEPT ![p] = BlankLoc]
         /\ calls' = [calls EXCEPT ![p] = <<>>]
         /\ UNCHANGED <<storage, repo, cache, hasCache, logger, server, handled, limiter, checked, uploadCalls, now, deleteBegun>>
    ELSE UploadBegin(logger, p, "expressUpload", expressUploadInput(req), req)

(***************************************************************************)
(* JsonAssetAdapter.upload                                                 *)
(***************************************************************************)
\* m1asConfig.maxJsonUploadBytes with M1AS_MAX_JSON_UPLOAD_BYTES unset:
\* `Number(undefined) ?? 2 * 1024 * 1024` is NaN
EnvMaxJsonUploadBytes == "NaN"

\* `buffer.length > maxSize`
exceedsJsonMax(len) ==
    IF EnvMaxJsonUploadBytes = "NaN" THEN FALSE ELSE len > EnvMaxJsonUploadBytes

\* the response the handler sends without calling the manager
Responded(code) == [status |-> "response", code |-> code]

\* the AssetUploadInput the JSON handler builds: the name goes in as
\* `filename`, so displayName is undefined; mimeType is the field of the body
jsonUploadInput(req) ==
    [buffer |-> [defined |-> TRUE, len |-> req.body.len],
     displayName |-> <<>>,
     mimeType |-> req.body.mimeType,
     size |-> req.body.len,
     ownerId |-> req.ownerId,
     visibility |-> IF req.body.visibility = "public" THEN "public" ELSE "private"]

\* JsonAssetAdapter.upload up to the completion of storage.save in the
\* manager; req.body.data is missing, not base64, or the encoding of
\* req.body.len bytes; result holds the response of a rejected request and
\* otherwise what the manager returns or throws to the handler
JsonUploadCall(p, req) ==
    LET rejected ==
            IF req.ownerId = Undefined THEN 401
            ELSE IF req.body.unexpected THEN 400
            ELSE IF req.body.data # "base64" THEN 400
            ELSE IF exceedsJsonMax(req.body.len) THEN 413
            ELSE 0
    IN  IF rejected # 0
        THEN /\ Free(p)
             /\ op' = [op EXCEPT ![p] = [name |-> "jsonUpload", id |-> <<>>,
                                         requester |-> Undefined, input |-> NoInput,
                                         query |-> req]]
             /\ pc' = [pc EXCEPT ![p] = "done"]
             /\ result' = [result EXCEPT ![p] = Responded(rejected)]
             /\ loc' = [loc EXCEPT ![p] = BlankLoc]
             /\ calls' = [calls EXCEPT ![p] = <<>>]
             /\ UNCHANGED <<storage, repo, cache, hasCache, logger, server, handled, limiter, checked, uploadCalls, now, deleteBegun>>
        ELSE UploadBegin(logger, p, "jsonUpload", jsonUploadInput(req), req)

\* GET /assets/:id/signed: getSignedUrl(req, res) up to its call of get(id)
GetSignedUrlCall(p, req) ==
    /\ Free(p)
    /\ op' = [op EXCEPT ![p] = [name |-> "getSignedUrl", id |-> req.params.id,
                                requester |-> req.ownerId, input |-> NoInput,
                                query |-> [ttl |-> req.ttl]]]
    /\ pc' = [pc EXCEPT ![p] = GetEntry]
    /\ loc' = [loc EXCEPT ![p] = BlankLoc]
    /\ calls' = [calls EXCEPT ![p] = <<>>]
    /\ result' = [result EXCEPT ![p] = NoResult]
    /\ UNCHANGED <<storage, repo, cache, hasCache, logger, server, handled, limiter, checked,
                   uploadCalls, now, deleteBegun>>

\* the client q, answered by getSignedUrl, requests the url it was given:
\* getFileSigned runs for p. `at` and `issuedTo` are history: the time of the
\* request and the identity the url was issued to
FollowSignedUrl(p, q) ==
    /\ op[q].name = "getSignedUrl" /\ pc[q] = "done" /\ result[q].status = "ok"
    /\ GetFileSignedCall(p, result[q].value.url.id,
                         [expires |-> [kind |-> "num", n |-> result[q].value.url.expires],
                          sig |-> result[q].value.url.sig,
                          at |-> now,
                          issuedTo |-> op[q].requester])

(***************************************************************************)
(* RateLimiter                                                             *)
(***************************************************************************)
\* the keys requests are counted under, the windows (ms) and the limits
RateKeys == {"k1", "k2"}
WindowSizes == {500, 1000}
MaxValues == {1, 2}

\* `new RateLimiter(windowMs, max)`: the bucket map starts empty
NewRateLimiter(windowMs, max) ==
    /\ limiter = NoLimiter
    /\ limiter' = [windowMs |-> windowMs, max |-> max,
                   buckets |-> [k \in RateKeys |-> Null]]
    /\ UNCHANGED <<storage, repo, cache, hasCache, logger, server, handled, checked, uploadCalls, now, pc, op,
                   loc, calls, result, deleteBegun>>

\* check: `bucket.resetAt < now`
windowElapsed(bucket, t) == bucket.resetAt < t

\* a mutant of bucketFull: one request more passes
bucketFull_offByOne(bucket, max) == bucket.count > max

\* check: `bucket.count >= this.max`
bucketFull(bucket, max) == bucket.count >= max

\* a mutant of freshBucket: the bucket's window is already over
freshBucket_noWindow(t, windowMs) == [count |-> 1, resetAt |-> t]

\* a mutant of freshBucket: the call that makes the bucket is not counted
freshBucket_uncounted(t, windowMs) == [count |-> 0, resetAt |-> t + windowMs]

\* check: `{ count: 1, resetAt: now + this.windowMs }`
freshBucket(t, windowMs) == [count |-> 1, resetAt |-> t + windowMs]

\* RateLimiter.check(key) at time t on limiter l: the limiter it leaves and
\* the boolean it returns
check(l, key, t) ==
    LET bucket == l.buckets[key]
    IN  IF bucket = Null \/ windowElapsed(bucket, t)
        THEN [limiter |-> [l EXCEPT !.buckets[key] = freshBucket(t, l.windowMs)],
              allowed |-> TRUE]
        ELSE IF bucketFull(bucket, l.max)
        THEN [limiter |-> l, allowed |-> FALSE]
        ELSE [limiter |-> [l EXCEPT !.buckets[key].count = @ + 1], allowed |-> TRUE]

\* a request calls check(key); the method has no await, so it runs as one
\* step. The entry of `checked` keeps the window end of the bucket that
\* counted the call
CheckCall(key) ==
    /\ limiter # NoLimiter
    /\ Len(checked) < MaxChecks
    /\ limiter' = check(limiter, key, now).limiter
    /\ checked' = Append(checked,
                         [key |-> key, at |-> now,
                          allowed |-> check(limiter, key, now).allowed,
                          resetAt |-> check(limiter, key, now).limiter.buckets[key].resetAt])
    /\ UNCHANGED <<storage, repo, cache, hasCache, logger, server, handled, uploadCalls, now, pc, op, loc, calls,
                   result, deleteBegun>>

\* half a second passes on the clock Date.now() reads
AdvanceClock ==
    /\ now < MaxTicks * 500
    /\ now' = now + 500
    /\ UNCHANGED <<storage, repo, cache, hasCache, logger, server, handled, limiter, checked, uploadCalls, pc, op,
                   loc, calls, result, deleteBegun>>

(***************************************************************************)
(* normalizeFilename called directly                                       *)
(***************************************************************************)
\* a caller has normalizeFilename(input, {maxLength, mode}) evaluated once, the
\* fallback extension left at its default
NormalizeCall(p, input, maxLength, mode) ==
    /\ pc[p] = "idle"
    /\ op' = [op EXCEPT ![p] = [name |-> "normalizeFilename", id |-> <<>>,
                                requester |-> Undefined,
                                input |-> [name |-> input, maxLength |-> maxLength,
                                           mode |-> mode],
                                query |-> NoQuery]]
    /\ pc' = [pc EXCEPT ![p] = "done"]
    /\ loc' = [loc EXCEPT ![p] = BlankLoc]
    /\ calls' = [calls EXCEPT ![p] = <<>>]
    /\ result' = [result EXCEPT ![p] =
            Returned(normalizeFilename(input, maxLength, DotBin, mode, randomUUID(0)))]
    /\ UNCHANGED <<storage, repo, cache, hasCache, logger, server, handled, limiter, checked,
                   uploadCalls, now, deleteBegun>>

(***************************************************************************)
(* SignedUrlService called directly                                        *)
(***************************************************************************)
\* a caller has SignedUrlService.sign(assetId, expires) made
SignCall(p, assetId, expires) ==
    /\ Free(p)
    /\ op' = [op EXCEPT ![p] = [name |-> "sign", id |-> assetId, requester |-> Undefined,
                                input |-> NoInput, query |-> [expires |-> expires]]]
    /\ pc' = [pc EXCEPT ![p] = "done"]
    /\ loc' = [loc EXCEPT ![p] = BlankLoc]
    /\ calls' = [calls EXCEPT ![p] = <<>>]
    /\ result' = [result EXCEPT ![p] = Returned(sign(assetId, expires))]
    /\ UNCHANGED <<storage, repo, cache, hasCache, logger, server, handled, limiter, checked,
                   uploadCalls, now, deleteBegun>>

\* a caller has SignedUrlService.verify(assetId, expires, sig) evaluated at
\* the present time; `at` and `issuedFor` are history: the time of the call
\* and the (assetId, expires) the presented signature was made for
VerifyCall(p, assetId, expires, sig, issuedFor) ==
    /\ Free(p)
    /\ op' = [op EXCEPT ![p] = [name |-> "verify", id |-> assetId, requester |-> Undefined,
                                input |-> NoInput,
                                query |-> [expires |-> expires, sig |-> sig, at |-> now,
                                           issuedFor |-> issuedFor]]]
    /\ pc' = [pc EXCEPT ![p] = "done"]
    /\ loc' = [loc EXCEPT ![p] = BlankLoc]
    /\ calls' = [calls EXCEPT ![p] = <<>>]
    /\ result' = [result EXCEPT ![p] = Returned(verify(assetId, expires, sig, now))]
    /\ UNCHANGED <<storage, repo, cache, hasCache, logger, server, handled, limiter, checked,
                   uploadCalls, now, deleteBegun>>

(***************************************************************************)
(* The rate-limit middleware and the routes it guards                      *)
(***************************************************************************)
RateCategories == {"upload", "read", "delete"}

\* a mutant of rateLimitEnabled: the switch is ignored
rateLimitEnabled_always(env) == TRUE

\* m1asConfig.rateLimit.enabled, from the value of M1AS_RATE_LIMIT
rateLimitEnabled(env) == env # "off"

\* a mutant of limiterOf: the three middlewares share one RateLimiter
limiterOf_shared(category) == "upload"

\* the RateLimiter a category's middleware closes over: m1asServer calls
\* createRateLimit three times, and each call makes its own
limiterOf(category) == category

\* the module-level code of m1asServer, env being the value of
\* M1AS_RATE_LIMIT in the process environment: the configuration is read and the
\* three middlewares are made, each with an empty bucket map
StartServer(env, windowMs, uploadMax, readMax, deleteMax) ==
    /\ server = NoServer
    /\ server' =
          [env |-> env,
           enabled |-> rateLimitEnabled(env),
           limiters |->
              [c \in RateCategories |->
                  [windowMs |-> windowMs,
                   max |-> CASE c = "upload" -> uploadMax
                             [] c = "read" -> readMax
                             [] c = "delete" -> deleteMax,
                   buckets |-> [k \in RateKeys |-> Null]]]]
    /\ UNCHANGED <<storage, repo, cache, hasCache, logger, limiter, checked, handled, uploadCalls,
                   now, pc, op, loc, calls, result, deleteBegun>>

\* the requests the server is sent: method and path under the two mounts
Routes ==
    {"POST /assets", "GET /assets/:id", "GET /assets/:id/file", "DELETE /assets/:id",
     "POST /assets/json", "GET /health"}

\* the rate-limit middlewares on the way of a request, in order: those of
\* createAssetRouter's routes, and uploadRateLimit on the /assets/json mount
routeCategories(route) ==
    CASE route = "POST /assets" -> <<"upload">>
      [] route = "GET /assets/:id" -> <<"read">>
      [] route = "GET /assets/:id/file" -> <<"read">>
      [] route = "DELETE /assets/:id" -> <<"delete">>
      [] route = "POST /assets/json" -> <<"upload">>
      [] OTHER -> <<>>

\* the middleware createRateLimit returns, for one category, on a request
\* with key: whether it calls next() without an error, and the server it
\* leaves
rateLimitMiddleware(srv, category, key, t) ==
    IF ~srv.enabled
    THEN [server |-> srv, passed |-> TRUE, counted |-> FALSE]
    ELSE LET c == check(srv.limiters[limiterOf(category)], key, t)
         IN  [server |-> [srv EXCEPT !.limiters[limiterOf(category)] = c.limiter],
              passed |-> c.allowed, counted |-> TRUE]

\* a request is routed up to its handler; every route here has at most one
\* rate-limit middleware on its way
RouteRequest(route, key) ==
    /\ server # NoServer
    /\ Len(handled) < MaxRequests
    /\ LET cats == routeCategories(route)
       IN  IF cats = <<>>
           THEN /\ handled' = Append(handled,
                        [route |-> route, key |-> key, counted |-> {}, passed |-> TRUE])
                /\ UNCHANGED server
           ELSE LET m == rateLimitMiddleware(server, cats[1], key, now)
                IN  /\ server' = m.server
                    /\ handled' = Append(handled,
                            [route |-> route, key |-> key,
                             counted |-> IF m.counted THEN {cats[1]} ELSE {},
                             passed |-> m.passed])
    /\ UNCHANGED <<storage, repo, cache, hasCache, logger, limiter, checked, uploadCalls, now, pc,
                   op, loc, calls, result, deleteBegun>>

\* a second of wall-clock time passes
Tick ==
    /\ now < MaxSeconds * 1000
    /\ now' = now + 1000
    /\ UNCHANGED <<storage, repo, cache, hasCache, logger, server, handled, limiter, checked, uploadCalls, pc, op, loc, calls,
                   result, deleteBegun>>

(***************************************************************************)
(* Inputs                                                                  *)
(***************************************************************************)
Buffers ==
    {[defined |-> FALSE, len |-> 0]}
        \cup {[defined |-> TRUE, len |-> n] :
                n \in {0, 1, DefaultMaxFileSizeBytes, DefaultMaxFileSizeBytes + 1}}
Sizes == {-1, 0, 1, DefaultMaxFileSizeBytes, DefaultMaxFileSizeBytes + 1}
MimeTypes == {Undefined, "text/html", "image/png"}
OwnerIds == {Undefined, NonString, "", " ", "u1"}
Visibilities == {Undefined, "public"}
DisplayNames == {<<".", ".", "/", "a">>}

UploadInputs ==
    [buffer : Buffers, displayName : DisplayNames, mimeType : MimeTypes,
     size : Sizes, ownerId : OwnerIds, visibility : Visibilities]

\* the uploads of the concurrent specifications: one-byte PNGs of every owner
\* and visibility, and the ones an empty ownerId makes invalid
CoreInputs ==
    {i \in UploadInputs :
        /\ i.buffer = [defined |-> TRUE, len |-> 1]
        /\ i.mimeType = "image/png"
        /\ i.size = 1
        /\ i.ownerId \in {Undefined, "u1", ""}}

Requesters == {Undefined, "u1", "u2"}

\* the inputs a typed caller gives the manager: visibility is an
\* AssetVisibility or absent
TypedInputs ==
    {[i EXCEPT !.visibility = v] : i \in CoreInputs, v \in {Undefined, "private", "public"}}

\* multipart requests: the outcome of multer, the file part, the fields of
\* the form, the type file-type detects, the m1as-user-id header
FormBodies ==
    {[keys |-> {}, visibility |-> Undefined], [keys |-> {"other"}, visibility |-> Undefined]}
        \cup {[keys |-> {"visibility"}, visibility |-> v] :
                    v \in {"public", "private", "internal", ""}}
ExpressRequests ==
    [multer : {"ok", "MulterError", "Error"},
     hasFile : BOOLEAN,
     file : {[buffer |-> [defined |-> TRUE, len |-> 1], size |-> 1, mimetype |-> "text/html"]},
     detected : {Undefined, "image/png"},
     body : FormBodies,
     ownerId : {Undefined, "u1"}]

\* JSON requests: the owner header, the body's fields (one beyond the four
\* allowed or none), its data, claimed type and visibility, and the type
\* file-type would detect in the decoded bytes
JsonRequests ==
    [ownerId : {Undefined, "u1"},
     body : [unexpected : BOOLEAN, data : {"missing", "not base64", "base64"},
             len : {1}, mimeType : {Undefined, "image/png", "text/html"},
             visibility : {Undefined}],
     detected : {Undefined, "image/png"}]

\* multipart requests that reach the detection: a part the client calls HTML
\* or PNG, in which file-type detects a PNG or nothing
TypedParts ==
    [multer : {"ok"},
     hasFile : {TRUE},
     file : {[buffer |-> [defined |-> TRUE, len |-> 1], size |-> 1, mimetype |-> m] :
                m \in {"text/html", "image/png"}},
     detected : {Undefined, "image/png"},
     body : {[keys |-> {}, visibility |-> Undefined]},
     ownerId : {"u1"}]

\* the signatures a client presents for (id, n): none, a guess, the one signed
\* for (id, n), one signed for another expiry, one signed for another asset
QuerySigs(id, n) ==
    {<<>>, Hmac("guess", <<"x">>), sign(id, n), sign(id, n + 1), sign(<<"i", "0">>, n)}
Queries(id) ==
    {[expires |-> e, sig |-> s] :
        e \in {[kind |-> "missing"], [kind |-> "nan"]}, s \in QuerySigs(id, 0)}
      \cup UNION {{[expires |-> [kind |-> "num", n |-> n], sig |-> s] :
                        s \in QuerySigs(id, n)} : n \in 0..MaxSeconds}

(***************************************************************************)
(* Specifications                                                          *)
(***************************************************************************)
UploadSteps(lg, p) ==
    \/ UploadCreate(lg, p)
    \/ UploadCacheSet(lg, p)
    \/ UploadRollback(lg, p)

GetSteps(lg, p) ==
    \/ GetCacheGet(lg, p)
    \/ GetFind(lg, p)
    \/ GetCacheSet(lg, p)
    \/ FileRead(lg, p)

DeleteSteps(lg, p) ==
    \/ DeleteStorage(lg, p)
    \/ DeleteRepo(lg, p)
    \/ DeleteCache(lg, p)

\* the manager: uploads and deletes by one request, reads by another, in
\* every interleaving
Next ==
    \/ \E input \in CoreInputs : UploadCall(logger, "r1", input)
    \/ UploadSteps(logger, "r1")
    \/ \E id \in AssetIds : DeleteCall(logger, "r1", id)
    \/ DeleteSteps(logger, "r1")
    \/ \E name \in ReadOps, id \in AssetIds, r \in Requesters : ReadCall("r2", name, id, r)
    \/ GetSteps(logger, "r2")

Spec == Init /\ [][Next]_vars

\* one caller uploading every input of UploadInputs
NextValidate ==
    \/ \E input \in UploadInputs : UploadCall(logger, "r1", input)
    \/ UploadSteps(logger, "r1")

SpecValidate == Init /\ [][NextValidate]_vars

\* uploads by one request, signed deliveries by the other, and the clock
NextHttp ==
    \/ \E input \in CoreInputs : UploadCall(logger, "r1", input)
    \/ UploadSteps(logger, "r1")
    \/ \E id \in AssetIds : \E query \in Queries(id) : GetFileSignedCall("r2", id, query)
    \/ GetSteps(logger, "r2")
    \/ Tick

SpecHttp == Init /\ [][NextHttp]_vars

\* uploads through the manager and through the multipart handler
NextUpload ==
    \/ \E input \in TypedInputs : UploadCall(logger, "r1", input)
    \/ \E req \in ExpressRequests : ExpressUploadCall("r1", req)
    \/ UploadSteps(logger, "r1")

SpecUpload == Init /\ [][NextUpload]_vars

\* uploads through the two HTTP handlers, with the type the client claims and
\* the type of the content
NextMime ==
    \/ \E req \in TypedParts : ExpressUploadCall("r1", req)
    \/ \E req \in JsonRequests : JsonUploadCall("r1", req)
    \/ UploadSteps(logger, "r1")

SpecMime == Init /\ [][NextMime]_vars

\* one rate limiter, checked under two keys as time passes
NextLimiter ==
    \/ \E windowMs \in WindowSizes, max \in MaxValues : NewRateLimiter(windowMs, max)
    \/ \E key \in RateKeys : CheckCall(key)
    \/ AdvanceClock

SpecLimiter == Init /\ [][NextLimiter]_vars

\* limits that are not positive: `new RateLimiter(windowMs, max)` takes any
\* number
LowMaxValues == {-1, 0}

\* the limiter constructed with any limit, positive or not
NextLimiterAnyMax ==
    \/ \E windowMs \in WindowSizes, max \in MaxValues \cup LowMaxValues :
            NewRateLimiter(windowMs, max)
    \/ \E key \in RateKeys : CheckCall(key)
    \/ AdvanceClock

SpecLimiterAnyMax == Init /\ [][NextLimiterAnyMax]_vars

\* the characters names are made of: safe ones, both path separators, a
\* control character, a character NFKC turns into a separator, and one
\* outside the allowlist
NameChars == {"a", ".", "_", "/", "\\", "<LF>", "<U+FF0F>", "<U+00E9>"}

RECURSIVE NamesOfLen(_)
NamesOfLen(n) ==
    IF n = 0 THEN {<<>>}
    ELSE {Append(s, c) : s \in NamesOfLen(n - 1), c \in NameChars}

EtcPasswd ==
    <<".", ".", "/", ".", ".", "/", "e", "t", "c", "/", "p", "a", "s", "s", "w", "d">>

\* every name of up to MaxNameLen characters, and "../../etc/passwd"
Names == UNION {NamesOfLen(n) : n \in 0..MaxNameLen} \cup {EtcPasswd}

\* the normalizer applied to every name, in both modes, with the default
\* maximal length and with one that truncates
NextNormalize ==
    /\ pc["r1"] = "idle"
    /\ \E input \in Names, maxLength \in {DEFAULT_MAX_LENGTH, 2},
            mode \in {"sanitize", "strict"} :
          NormalizeCall("r1", input, maxLength, mode)

SpecNormalize == Init /\ [][NextNormalize]_vars

\* asset ids, some holding the separator of the payload, and expiries (epoch
\* seconds) whose decimals run into one another when written after an id
SignIds == {<<"a">>, <<"a", "1">>, <<"a", ":">>, <<"a", ":", "1">>}
SignExpiries == {0, 1, 11}
NotIssued == [none |-> TRUE]

\* one caller obtains signatures, another presents the latest or a guess
\* for any asset id and expiry, as time passes
NextSign ==
    \/ \E assetId \in SignIds, expires \in SignExpiries : SignCall("r1", assetId, expires)
    \/ \E assetId \in SignIds, expires \in SignExpiries :
          \/ /\ op["r1"].name = "sign"
             /\ VerifyCall("r2", assetId, expires, result["r1"].value,
                           [id |-> op["r1"].id, expires |-> op["r1"].query.expires])
          \/ VerifyCall("r2", assetId, expires, Hmac("guess", <<"x">>), NotIssued)
    \/ Tick

SpecSign == Init /\ [][NextSign]_vars

\* the environments the server is started in: M1AS_RATE_LIMIT off or unset,
\* and the window and ceilings of M1AS_RL_*
ServerConfigs ==
    {[env |-> "off", windowMs |-> 500, uploadMax |-> 1, readMax |-> 1, deleteMax |-> 1],
     [env |-> Undefined, windowMs |-> 500, uploadMax |-> 1, readMax |-> 1, deleteMax |-> 1],
     [env |-> Undefined, windowMs |-> 500, uploadMax |-> 2, readMax |-> 1, deleteMax |-> 2]}

\* the server's routes behind their rate limits, for two client keys
NextServer ==
    \/ \E cfg \in ServerConfigs :
          StartServer(cfg.env, cfg.windowMs, cfg.uploadMax, cfg.readMax, cfg.deleteMax)
    \/ \E route \in Routes, key \in RateKeys : RouteRequest(route, key)
    \/ AdvanceClock

SpecServer == Init /\ [][NextServer]_vars

\* the uploads of the logging specification: a private and a public asset of
\* owner u1, and an upload the empty ownerId makes invalid
LoggerInputs ==
    {i \in CoreInputs :
        i.ownerId = "u1" \/ (i.ownerId = "" /\ i.visibility = Undefined)}

\* its readers: the owner and an anonymous caller
LoggerRequesters == {Undefined, "u1"}

\* the manager run by one caller, one operation after the other, with logger lg
NextManager(lg) ==
    \/ \E input \in LoggerInputs : UploadCall(lg, "r1", input)
    \/ UploadSteps(lg, "r1")
    \/ \E name \in ReadOps, id \in AssetIds, r \in LoggerRequesters :
            ReadCall("r1", name, id, r)
    \/ GetSteps(lg, "r1")
    \/ \E id \in AssetIds : DeleteCall(lg, "r1", id)
    \/ DeleteSteps(lg, "r1")

\* the manager run with the logger it was constructed with
NextLogger == NextManager(logger)

SpecLogger == InitLogger /\ [][NextLogger]_vars

\* DELETE /assets/:id requests: any asset id, sent with no identity or with
\* the identity of either user
DeleteRequests == [params : [id : AssetIds], ownerId : Requesters]

\* one request uploads assets of every owner and visibility while another
\* sends delete requests through the Express adapter
NextDelete ==
    \/ \E input \in CoreInputs : UploadCall(logger, "r1", input)
    \/ UploadSteps(logger, "r1")
    \/ \E req \in DeleteRequests : ExpressDeleteCall(logger, "r2", req)
    \/ DeleteSteps(logger, "r2")

SpecDelete == Init /\ [][NextDelete]_vars

\* requests for a signed url: any asset id, any identity, the ttl missing,
\* not positive or one second
SignedUrlRequests ==
    [params : [id : AssetIds],
     ownerId : Requesters,
     ttl : {[kind |-> "missing"], [kind |-> "num", n |-> 0], [kind |-> "num", n |-> 1]}]

\* the assets they are asked for: private and public, of u1 and of no owner
SignedUrlInputs == {i \in CoreInputs : i.ownerId \in {Undefined, "u1"}}

\* one client, one request after the other: it uploads, asks for signed
\* urls and requests the url it was given, as time passes
NextSignedUrl ==
    \/ \E input \in SignedUrlInputs : UploadCall(logger, "r1", input)
    \/ UploadSteps(logger, "r1")
    \/ \E req \in SignedUrlRequests : GetSignedUrlCall("r1", req)
    \/ FollowSignedUrl("r1", "r1")
    \/ GetSteps(logger, "r1")
    \/ Tick

SpecSignedUrl == Init /\ [][NextSignedUrl]_vars

\* no pair of get(id) calls is under way: uploads and deletes take steps only
\* then
NoPairUnderWay == op["r2"].name # "getTwice" \/ pc["r2"] = "done"

\* uploads and deletes by one request; single reads and pairs of get(id) by
\* the other, the pairs with no upload or delete step in between
NextGet ==
    \/ NoPairUnderWay /\ \E input \in CoreInputs : UploadCall(logger, "r1", input)
    \/ NoPairUnderWay /\ UploadSteps(logger, "r1")
    \/ NoPairUnderWay /\ \E id \in AssetIds : DeleteCall(logger, "r1", id)
    \/ NoPairUnderWay /\ DeleteSteps(logger, "r1")
    \/ \E id \in AssetIds : ReadCall("r2", "get", id, Undefined)
    \/ \E id \in AssetIds : GetTwiceCall("r2", id)
    \/ GetCacheGet(logger, "r2")
    \/ GetFind(logger, "r2")
    \/ GetCacheSet(logger, "r2")

SpecGet == Init /\ [][NextGet]_vars

(***************************************************************************)
(* Properties of upload's compensation and of the stored state             *)
(***************************************************************************)
PortCalls(p, port) == {i \in DOMAIN calls[p] : calls[p][i].port = port}

\* an upload whose repository.create failed has ended
CreateFailed(p) ==
    op[p].name = "upload" /\ pc[p] = "done" /\ loc[p].err = "RepositoryCreateError"

\* C1: when repository.create fails after storage.save succeeded, upload calls
\* storage.delete exactly once, with the storagePath save returned, and rejects
\* with the repository's error, whether or not that delete itself fails
C1_RollbackOnCreateFailure ==
    \A p \in Requests :
        CreateFailed(p) =>
            /\ Cardinality(PortCalls(p, "storage.delete")) = 1
            /\ \A i \in PortCalls(p, "storage.delete") :
                    calls[p][i].arg = loc[p].stored.storagePath
            /\ PortCalls(p, "storage.save") # {}
            /\ result[p] = Thrown("RepositoryCreateError")

\* repository.create failed and the compensating delete failed as well: the
\* bytes are still stored and the caller got the repository's error
C1_Witness ==
    /\ CreateFailed("r1")
    /\ storageHas(storage, loc["r1"].stored.storagePath)
    /\ result["r1"] = Thrown("RepositoryCreateError")

\* request p's read returns in this step
ReadReturns(p) ==
    pc[p] # "done" /\ pc'[p] = "done" /\ op[p].name \in ReadOps

\* the read returning in this step shows the caller that a record exists although
\* its bytes are gone: get or getMetadataById returns the record, or getFileById
\* answers not_found for a record it found
ExposesRecordWithoutBytes(p) ==
    /\ ReadReturns(p)
    /\ loc'[p].got # Null
    /\ result'[p].status = "ok"
    /\ ~storageHas(storage', loc'[p].got.storagePath)
    /\ \/ op[p].name \in {"get", "getMetadataById"}
       \/ op[p].name = "getFileById" /\ result'[p].value = [status |-> "not_found"]

\* C2, as stated: under every interleaving of upload, delete and reads, a read
\* that exposes a record finds the bytes stored at its storagePath
C2_Original ==
    [][\A p \in Requests : ~ExposesRecordWithoutBytes(p)]_vars

\* C2, amended: a read that exposes a record finds the bytes stored at its
\* storagePath as long as no delete() has found that record; once a delete has
\* begun, the record can be exposed with its bytes gone
C2_BytesBehindExposedRecord ==
    [][\A p \in Requests :
            ExposesRecordWithoutBytes(p) => op[p].id \in deleteBegun]_vars

\* a read returned the record of an upload that is still suspended at its cache
\* write, and the bytes are stored
C2_Witness ==
    /\ pc["r1"] = "u_cache"
    /\ pc["r2"] = "done" /\ op["r2"].name = "getMetadataById"
    /\ loc["r2"].got # Null
    /\ result["r2"].status = "ok"
    /\ storageHas(storage, loc["r2"].got.storagePath)

(***************************************************************************)
(* Properties of the access invariant                                      *)
(***************************************************************************)
\* what a record's non-owner must not receive
OwnerOnlyFields == {"ownerId", "visibility", "updatedAt", "storagePath", "file", "buffer"}

\* request p's read has ended after get(id) gave it a private record whose
\* ownerId differs from the requester
ForeignPrivateRead(p) ==
    /\ op[p].name \in ReadOps /\ pc[p] = "done"
    /\ loc[p].got # Null
    /\ loc[p].got.visibility = "private"
    /\ op[p].requester # loc[p].got.ownerId

\* the value the read returned carries none of the owner-only fields
Withheld(p) ==
    result[p].status = "ok" => DOMAIN result[p].value \cap OwnerOnlyFields = {}

\* C3, as stated: none of get, getMetadataById and getFileById returns the bytes
\* or ownerId, visibility, updatedAt, storagePath of a private asset to a
\* requester other than its owner
C3_Original ==
    \A p \in Requests : ForeignPrivateRead(p) => Withheld(p)

\* C3, amended: getMetadataById and getFileById return neither the bytes nor
\* ownerId, visibility, updatedAt, storagePath of a private asset to a requester
\* other than its owner; get(id) takes no requester and returns the whole record
C3_AccessInvariant ==
    \A p \in Requests :
        (ForeignPrivateRead(p) /\ op[p].name \in {"getMetadataById", "getFileById"})
            => Withheld(p)

\* u2 asked for the file of u1's private asset and was answered
C3_Witness ==
    /\ ForeignPrivateRead("r2")
    /\ op["r2"].name = "getFileById"
    /\ op["r2"].requester = "u2" /\ loc["r2"].got.ownerId = "u1"
    /\ result["r2"].status = "ok"

\* C4: getMetadataById(id, A) on a private asset of owner B # A, once get(id)
\* has found the record, returns exactly id, displayName, mimeType, size and
\* createdAt of the record, and neither null nor an error
C4_RedactedProjection ==
    \A p \in Requests :
        (ForeignPrivateRead(p) /\ op[p].name = "getMetadataById") =>
            /\ result[p].status = "ok"
            /\ result[p].value # Null
            /\ DOMAIN result[p].value = {"id", "displayName", "mimeType", "size", "createdAt"}
            /\ \A f \in DOMAIN result[p].value : result[p].value[f] = loc[p].got[f]

\* u2 got the metadata of u1's private asset
C4_Witness ==
    /\ ForeignPrivateRead("r2")
    /\ op["r2"].name = "getMetadataById"
    /\ op["r2"].requester = "u2" /\ loc["r2"].got.ownerId = "u1"
    /\ result["r2"].status = "ok"

\* C5: getFileById(id, A) on a private asset whose ownerId differs from A
\* returns status "forbidden" without ever calling storage.get
C5_ForbiddenWithoutRead ==
    \A p \in Requests :
        (ForeignPrivateRead(p) /\ op[p].name = "getFileById") =>
            /\ result[p] = Returned([status |-> "forbidden"])
            /\ PortCalls(p, "storage.get") = {}

\* a requester with no identity asked for the file of u1's private asset while
\* its bytes were stored
C5_Witness ==
    /\ ForeignPrivateRead("r2")
    /\ op["r2"].name = "getFileById"
    /\ op["r2"].requester = Undefined /\ loc["r2"].got.ownerId = "u1"
    /\ storageHas(storage, loc["r2"].got.storagePath)
    /\ result["r2"] = Returned([status |-> "forbidden"])

\* getFileSigned is about to read, or has sent, the bytes
SignedDelivery(p) ==
    /\ op[p].name = "getFileSigned"
    /\ \/ pc[p] = "file_read"
       \/ pc[p] = "done" /\ result[p].status = "ok"

\* C6: whatever id, expiry and signature the request carries, getFileSigned
\* never sends the bytes of a private asset
C6_NoSignedPrivateDelivery ==
    \A p \in Requests :
        SignedDelivery(p) =>
            /\ loc[p].got.visibility # "private"
            /\ \A r \in repo \cup cache : r.id = op[p].id => r.visibility # "private"

\* a correctly signed, unexpired link to a stored private asset was refused
C6_Witness ==
    /\ op["r2"].name = "getFileSigned" /\ pc["r2"] = "done"
    /\ op["r2"].query.expires.kind = "num"
    /\ verify(op["r2"].id, op["r2"].query.expires.n, op["r2"].query.sig, now)
    /\ loc["r2"].got # Null
    /\ loc["r2"].got.visibility = "private"
    /\ storageHas(storage, loc["r2"].got.storagePath)
    /\ result["r2"] = Thrown("ACCESS_DENIED")

(***************************************************************************)
(* Properties of upload validation                                         *)
(***************************************************************************)
\* request p's upload() fails with an input fault in this step
RejectsInput(p) ==
    /\ uploadCalls' = uploadCalls + 1
    /\ op'[p].name = "upload" /\ pc'[p] = "done"
    /\ result'[p].status = "error"
    /\ result'[p].error \in InputFaults

\* C7: an upload that fails with an input fault has called none of
\* storage.save, storage.delete, repository.create, cache.set, and leaves
\* storage, repository and cache as they were
C7_ValidationHasNoEffect ==
    [][\A p \in Requests :
            RejectsInput(p) =>
                /\ \A i \in DOMAIN calls'[p] :
                        calls'[p][i].port \notin
                            {"storage.save", "storage.delete", "repository.create", "cache.set"}
                /\ UNCHANGED <<storage, repo, cache>>]_vars

\* an upload was refused for its ownerId, the last of the checks
C7_Witness ==
    /\ op["r1"].name = "upload" /\ pc["r1"] = "done"
    /\ result["r1"] = Thrown("M1AS-USER-ID_MUST_NOT_BE_EMPTY")
    /\ calls["r1"] = <<>>
    /\ storage = {} /\ repo = {} /\ cache = {}

\* the conditions of acceptance, in the order the faults are reported
BufferPresent(input) == input.buffer.defined /\ input.buffer.len > 0
MimeAllowed(input) == input.mimeType \in {"image/png", "image/jpeg", "image/webp"}
SizePositive(input) == input.size > 0
SizeMatches(input) == input.buffer.defined /\ input.size = input.buffer.len
WithinCeiling(input) == input.size <= 10 * 1024 * 1024
OwnerWellFormed(input) ==
    input.ownerId = Undefined \/ input.ownerId \notin {NonString, "", " "}

Acceptable(input) ==
    /\ BufferPresent(input) /\ MimeAllowed(input) /\ SizePositive(input)
    /\ SizeMatches(input) /\ WithinCeiling(input) /\ OwnerWellFormed(input)

FirstFault(input) ==
    CASE ~BufferPresent(input) -> "MISSING_ASSET_BUFFER"
      [] BufferPresent(input) /\ ~MimeAllowed(input) -> "FILE_TYPE_RESTRICTED"
      [] BufferPresent(input) /\ MimeAllowed(input) /\ ~SizePositive(input) ->
            "INVALID_FILE_SIZE"
      [] BufferPresent(input) /\ MimeAllowed(input) /\ SizePositive(input)
            /\ ~SizeMatches(input) -> "FILE_SIZE_MISMATCH"
      [] BufferPresent(input) /\ MimeAllowed(input) /\ SizePositive(input)
            /\ SizeMatches(input) /\ ~WithinCeiling(input) -> "FILE_TOO_LARGE"
      [] OTHER -> "M1AS-USER-ID_MUST_NOT_BE_EMPTY"

\* request p's upload() was refused with an input fault
Rejected(p) ==
    pc[p] = "done" /\ result[p].status = "error" /\ result[p].error \in InputFaults

\* C8: upload accepts an input exactly when the buffer is non-empty, the MIME
\* type is in the allow-list, size > 0, size equals the buffer length, size is
\* at most the ceiling (10 MiB by default) and ownerId is absent or a non-blank
\* string; otherwise it fails with the fault of the first condition violated
C8_AcceptanceAndFaultOrder ==
    \A p \in Requests :
        op[p].name = "upload" =>
            /\ Acceptable(op[p].input) <=> ~Rejected(p)
            /\ Rejected(p) => result[p].error = FirstFault(op[p].input)

\* an upload of exactly the ceiling's size passed validation
C8_Witness ==
    /\ op["r1"].name = "upload" /\ pc["r1"] = "u_create"
    /\ op["r1"].input.size = DefaultMaxFileSizeBytes
    /\ op["r1"].input.ownerId = "u1"

\* the declared size differs from the length of the buffer
SizeDiffers(input) ==
    input.buffer.defined /\ input.size # input.buffer.len

\* C9, as stated: every upload whose declared size differs from the buffer
\* length fails with the size-mismatch fault and persists no bytes
C9_Original ==
    \A p \in Requests :
        (op[p].name = "upload" /\ SizeDiffers(op[p].input)) =>
            /\ Rejected(p) /\ result[p].error = "FILE_SIZE_MISMATCH"
            /\ PortCalls(p, "storage.save") = {}

\* C9, amended: every upload whose declared size differs from the buffer length
\* fails with an input fault and storage.save is never called; the fault is the
\* size mismatch when the buffer is non-empty, the MIME type allowed and the
\* size positive, and the fault of the earlier check otherwise
C9_SizeMismatchRejected ==
    \A p \in Requests :
        (op[p].name = "upload" /\ SizeDiffers(op[p].input)) =>
            /\ Rejected(p)
            /\ PortCalls(p, "storage.save") = {}
            /\ (BufferPresent(op[p].input) /\ MimeAllowed(op[p].input)
                    /\ SizePositive(op[p].input))
                  <=> result[p].error = "FILE_SIZE_MISMATCH"

\* a one-byte buffer declared larger than the ceiling: the mismatch is reported
C9_Witness ==
    /\ op["r1"].name = "upload" /\ Rejected("r1")
    /\ op["r1"].input.buffer = [defined |-> TRUE, len |-> 1]
    /\ op["r1"].input.size = DefaultMaxFileSizeBytes + 1
    /\ result["r1"].error = "FILE_SIZE_MISMATCH"

\* request p's upload() returned a record
Succeeded(p) ==
    op[p].name = "upload" /\ pc[p] = "done" /\ result[p].status = "ok"

\* C10: the record a successful upload returns has the input buffer's length as
\* its size and, as its storagePath, the non-empty locator storage.save returned
C10_ReturnedSizeAndPath ==
    \A p \in Requests :
        Succeeded(p) =>
            /\ result[p].value.size = op[p].input.buffer.len
            /\ result[p].value.storagePath = loc[p].stored.storagePath
            /\ result[p].value.storagePath # <<>>
            /\ PortCalls(p, "storage.save") # {}

\* an upload of ceiling size succeeded and its bytes are stored at the path
C10_Witness ==
    /\ Succeeded("r1")
    /\ result["r1"].value.size = DefaultMaxFileSizeBytes
    /\ storageHas(storage, result["r1"].value.storagePath)

(***************************************************************************)
(* Properties of the stored visibility                                     *)
(***************************************************************************)
\* request p's upload, direct or through the multipart handler, returned a record
Uploaded(p) ==
    op[p].name \in {"upload", "expressUpload"} /\ pc[p] = "done" /\ result[p].status = "ok"

\* the visibility the caller gave: the input's for a direct call, the form
\* field's for a multipart request
GivenVisibility(p) ==
    IF op[p].name = "upload" THEN op[p].input.visibility
    ELSE IF "visibility" \in op[p].query.body.keys THEN op[p].query.body.visibility
    ELSE Undefined

\* C11: a successful upload with no visibility given yields a record with
\* visibility "private", one with visibility "public" yields "public", and no
\* upload yields any other value
C11_VisibilityDefaultsToPrivate ==
    \A p \in Requests :
        Uploaded(p) =>
            /\ GivenVisibility(p) = Undefined => result[p].value.visibility = "private"
            /\ GivenVisibility(p) = "public" => result[p].value.visibility = "public"
            /\ result[p].value.visibility \in {"private", "public"}
            /\ \A r \in repo : r.visibility \in {"private", "public"}

\* a multipart upload whose visibility field is neither "private" nor "public"
\* succeeded and was stored as private
C11_Witness ==
    /\ Uploaded("r1")
    /\ op["r1"].name = "expressUpload"
    /\ GivenVisibility("r1") = "internal"
    /\ result["r1"].value.visibility = "private"
    /\ result["r1"].value \in repo

(***************************************************************************)
(* Properties of delete                                                    *)
(***************************************************************************)
\* request p, which runs nothing, calls delete(id) in this step
CallsDelete(p, id) ==
    /\ Free(p)
    /\ op'[p].name = "delete" /\ op'[p].id = id
    /\ <<op[p], pc[p], calls[p], result[p]>> # <<op'[p], pc'[p], calls'[p], result'[p]>>

\* request p's last call was an upload that returned the record of id
JustUploaded(p, id) ==
    /\ op[p].name = "upload" /\ pc[p] = "done" /\ result[p].status = "ok"
    /\ result[p].value.id = id

\* request p's last call was delete(id) and returned "deleted"
JustDeleted(p, id) ==
    /\ op[p].name = "delete" /\ op[p].id = id /\ pc[p] = "done"
    /\ result[p] = Returned([status |-> "deleted"])

\* C12: with no port failing, the first delete(id) after a successful upload
\* of the asset finds it and returns "deleted", and a second delete(id) right
\* after it returns "not_found"
C12_DeleteTwice ==
    [][\A p \in Requests : \A id \in AssetIds :
            /\ (JustUploaded(p, id) /\ CallsDelete(p, id) /\ result'[p].status # "error")
                    => pc'[p] = "d_storage"
            /\ (op[p].name = "delete" /\ pc[p] \in {"d_storage", "d_repo", "d_cache"}
                    /\ pc'[p] = "done" /\ result'[p].status # "error")
                    => result'[p] = Returned([status |-> "deleted"])
            /\ (JustDeleted(p, id) /\ CallsDelete(p, id) /\ result'[p].status # "error")
                    => result'[p] = Returned([status |-> "not_found"])]_vars

\* the second delete of an uploaded asset returned "not_found": the row and
\* the bytes are gone
C12_Witness ==
    /\ op["r1"].name = "delete" /\ pc["r1"] = "done"
    /\ op["r1"].id \in deleteBegun
    /\ result["r1"] = Returned([status |-> "not_found"])
    /\ repo = {} /\ storage = {}

\* delete(id) is called in this step while the repository holds no record of id,
\* and the lookup does not fail
DeletesAbsent(p, id) ==
    /\ CallsDelete(p, id)
    /\ findById(repo, id) = Null
    /\ result'[p].status # "error"

\* C13, as stated: delete(id) on an id that does not exist returns "not_found"
\* and performs zero storage, repository and cache calls
C13_Original ==
    [][\A p \in Requests : \A id \in AssetIds :
            DeletesAbsent(p, id) =>
                /\ result'[p] = Returned([status |-> "not_found"])
                /\ calls'[p] = <<>>]_vars

\* C13, amended: delete(id) on an id that does not exist returns "not_found";
\* its only port call is the repository.findById(id) lookup, and storage,
\* repository and cache are left as they were
C13_DeleteAbsentOnlyLooksUp ==
    [][\A p \in Requests : \A id \in AssetIds :
            DeletesAbsent(p, id) =>
                /\ result'[p] = Returned([status |-> "not_found"])
                /\ calls'[p] = <<Call("repository.findById", id)>>
                /\ UNCHANGED <<storage, repo, cache>>]_vars

\* delete of an id that was never uploaded returned "not_found" after one lookup
C13_Witness ==
    /\ op["r1"].name = "delete" /\ pc["r1"] = "done"
    /\ uploadCalls = 0
    /\ result["r1"] = Returned([status |-> "not_found"])
    /\ calls["r1"] = <<Call("repository.findById", op["r1"].id)>>

\* C14, as stated: a read of id called after delete(id) returned "deleted",
\* whatever reads were in flight during the delete, returns null (get,
\* getMetadataById) or not_found (getFileById)
C14_Original ==
    \A p \in Requests :
        (op[p].name \in ReadOps /\ loc[p].late /\ pc[p] = "done" /\ result[p].status = "ok")
            => IF op[p].name = "getFileById"
               THEN result[p].value = [status |-> "not_found"]
               ELSE result[p].value = Null

(***************************************************************************)
(* Properties of the cache port                                            *)
(***************************************************************************)
\* C15, as stated: an exception thrown by the cache port's get, set or delete
\* is caught by the core and never reaches the caller of a manager operation
C15_Original ==
    \A p \in Requests : pc[p] = "done" => result[p] # Thrown("CacheError")

(***************************************************************************)
(* Properties of getFileById's storage read                                *)
(***************************************************************************)
\* request p's getFileById gets the outcome of its storage.get in this step
FileReadCompletes(p) ==
    /\ op[p].name = "getFileById"
    /\ pc[p] = "file_read" /\ pc'[p] = "done"

\* C17: in getFileById, past the access check, a storage.get that ends in a
\* not-found error (code ENOENT, or "FileNotFound" in the message) or in an
\* empty result yields status not_found and nothing is thrown; a storage.get
\* that throws any other error makes getFileById throw that same error
C17_BytesMissingIsNotFound ==
    [][\A p \in Requests :
            FileReadCompletes(p) =>
                /\ (loc'[p].err \in {"ENOENT", "FileNotFoundError"}
                        \/ (loc'[p].err = Undefined /\ loc'[p].file = Null))
                    => result'[p] = Returned([status |-> "not_found"])
                /\ loc'[p].err \notin {Undefined, "ENOENT", "FileNotFoundError"}
                    => result'[p] = Thrown(loc'[p].err)]_vars

\* a getFileById read by the owner met a FileNotFound error from storage.get
\* and returned not_found
C17_Witness ==
    /\ op["r2"].name = "getFileById" /\ pc["r2"] = "done"
    /\ op["r2"].requester = "u1"
    /\ loc["r2"].err = "FileNotFoundError"
    /\ result["r2"] = Returned([status |-> "not_found"])

(***************************************************************************)
(* Properties of get                                                       *)
(***************************************************************************)
\* the second get(id) of a pair returns a value to request p in this step
SecondGetReturns(p) ==
    /\ op[p].name = "getTwice" /\ loc[p].phase = 2
    /\ pc[p] # "done" /\ pc'[p] = "done"
    /\ result'[p].status = "ok"

\* C16: with no upload or delete step between them, the second of two
\* consecutive get(id) calls returns the value the first returned, whether the
\* second is served from the cache the first call filled or, the cache missing
\* or not filled, from the repository
C16_GetTwiceSame ==
    [][\A p \in Requests :
            SecondGetReturns(p) => result'[p].value = result[p].value]_vars

\* a pair of get(id) calls returned a record, the first from the repository
\* and the second from the cache the first call filled
C16_Witness ==
    /\ op["r2"].name = "getTwice" /\ pc["r2"] = "done"
    /\ result["r2"].status = "ok" /\ result["r2"].value # Null
    /\ calls["r2"] = <<Call("cache.get", op["r2"].id),
                       Call("repository.findById", op["r2"].id),
                       Call("cache.set", op["r2"].id),
                       Call("cache.get", op["r2"].id)>>

(***************************************************************************)
(* Properties of the rate limiter                                          *)
(***************************************************************************)
\* the calls up to the i-th that the same bucket counted as the i-th
SameWindow(i) ==
    {j \in 1..i : checked[j].key = checked[i].key /\ checked[j].resetAt = checked[i].resetAt}

\* C18: for every key and max >= 1, the windows of a key do not overlap, and
\* among the check(key) calls made within one window, in whatever order the
\* requests of all keys arrive, exactly the first max return true and every
\* later one returns false
C18_FirstMaxPerWindow ==
    limiter # NoLimiter =>
        /\ \A i \in 1..Len(checked) :
              checked[i].at < checked[i].resetAt
                  => (checked[i].allowed <=> Cardinality(SameWindow(i)) <= limiter.max)
        /\ \A i, j \in 1..Len(checked) :
              (checked[i].key = checked[j].key /\ checked[i].resetAt < checked[j].resetAt)
                  => checked[i].resetAt <= checked[j].resetAt - limiter.windowMs

\* with max = 2, three calls under one key inside one window: two were
\* allowed and the third denied, while a call under the other key came between
C18_Witness ==
    /\ limiter # NoLimiter /\ limiter.max = 2
    /\ Len(checked) = 4
    /\ checked[1].key = "k1" /\ checked[2].key = "k2"
    /\ checked[3].key = "k1" /\ checked[4].key = "k1"
    /\ checked[4].at < checked[4].resetAt
    /\ checked[1].allowed /\ checked[3].allowed /\ ~checked[4].allowed

\* check(key) is called in this step on a key whose bucket's window has
\* elapsed: now >= resetAt
ChecksElapsed(key) ==
    /\ limiter # NoLimiter
    /\ limiter.buckets[key] # Null
    /\ now >= limiter.buckets[key].resetAt
    /\ Len(checked') = Len(checked) + 1
    /\ checked'[Len(checked')].key = key

\* C19, as stated: check(key) on a key whose window has elapsed, now >= resetAt,
\* the instant now = resetAt included, starts a fresh bucket
\* {count = 1, resetAt = now + windowMs} and returns true
C19_Original ==
    [][\A key \in RateKeys :
            ChecksElapsed(key) =>
                /\ checked'[Len(checked')].allowed
                /\ limiter'.buckets[key] =
                        [count |-> 1, resetAt |-> now + limiter.windowMs]]_vars

\* the calls under the key of the i-th that were allowed from the time of the
\* i-th until windowMs later, both ends included
AllowedWithin(i) ==
    {j \in 1..Len(checked) :
        /\ checked[j].key = checked[i].key /\ checked[j].allowed
        /\ checked[j].at >= checked[i].at
        /\ checked[j].at <= checked[i].at + limiter.windowMs}

\* C20, as stated: for every key, any time interval of length windowMs,
\* wherever it starts, holds at most 2 * max calls of check(key) that
\* returned true
C20_Original ==
    limiter # NoLimiter =>
        \A i \in 1..Len(checked) : Cardinality(AllowedWithin(i)) <= 2 * limiter.max

\* the most calls one bucket allows: max, and one when max is not positive
perBucket(max) == IF max >= 1 THEN max ELSE 1

\* C20: for every key, any time interval of length windowMs, wherever it
\* starts, holds at most 2 * max calls of check(key) that returned true when
\* max >= 1, and at most 2 when max <= 0, a bucket allowing its first call
\* whatever max is
C20_BurstAtMostTwiceMax ==
    limiter # NoLimiter =>
        \A i \in 1..Len(checked) :
            Cardinality(AllowedWithin(i)) <= 2 * perBucket(limiter.max)

\* a burst across a window boundary: an interval of length windowMs with more
\* than max allowed calls under one key, counted by two buckets
C20_Witness ==
    /\ limiter # NoLimiter
    /\ \E i \in 1..Len(checked) :
          /\ Cardinality(AllowedWithin(i)) > limiter.max
          /\ \E j \in AllowedWithin(i) : checked[j].resetAt # checked[i].resetAt

(***************************************************************************)
(* Properties of the rate-limit middleware                                 *)
(***************************************************************************)
\* C21: with rate limiting disabled by configuration, every request passes
\* the rate-limit middleware, whatever its key and however many came before,
\* and no limiter holds a bucket for any key
C21_DisabledPassesAll ==
    (server # NoServer /\ server.env = "off") =>
        /\ \A i \in 1..Len(handled) : handled[i].passed /\ handled[i].counted = {}
        /\ \A c \in RateCategories : \A k \in RateKeys :
              server.limiters[c].buckets[k] = Null

\* rate limiting is off and one key has sent three uploads, more than any
\* configured ceiling: all passed
C21_Witness ==
    /\ server # NoServer /\ server.env = "off"
    /\ Len(handled) = 3
    /\ \A i \in 1..3 :
          handled[i].route = "POST /assets" /\ handled[i].key = "k1" /\ handled[i].passed

\* the category an operation belongs to
CategoryOfRoute(route) ==
    IF route \in {"POST /assets", "POST /assets/json"} THEN "upload"
    ELSE IF route \in {"GET /assets/:id", "GET /assets/:id/file"} THEN "read"
    ELSE "delete"

\* the requests before the n-th that passed under the same key and were
\* counted in category c
PassedBefore(served, n, c) ==
    {i \in 1..(n - 1) :
        served[i].key = served[n].key /\ served[i].passed /\ c \in served[i].counted}

\* C22: with rate limiting on, each request for an asset operation is counted
\* by exactly one limiter, that of its category; the step leaves the limiters
\* of the other categories as they were; and a request is denied only when
\* max requests of its own category and key had passed before it
C22_CategoriesIndependent ==
    [][(server # NoServer /\ Len(handled') = Len(handled) + 1) =>
          LET n == Len(handled')
              e == handled'[n]
          IN  /\ (server.enabled /\ e.route # "GET /health")
                    => e.counted = {CategoryOfRoute(e.route)}
              /\ \A c \in RateCategories \ e.counted :
                    server'.limiters[c] = server.limiters[c]
              /\ ~e.passed =>
                    \A c \in e.counted :
                        Cardinality(PassedBefore(handled', n, c)) >= server.limiters[c].max]_vars

\* a key used up its read ceiling of one and was denied a second read; its
\* upload after that passed
C22_Witness ==
    /\ server # NoServer /\ server.enabled
    /\ Len(handled) = 3
    /\ \A i \in 1..3 : handled[i].key = "k1"
    /\ handled[1].route = "GET /assets/:id" /\ handled[1].passed
    /\ handled[2].route = "GET /assets/:id/file" /\ ~handled[2].passed
    /\ handled[3].route = "POST /assets" /\ handled[3].passed

(***************************************************************************)
(* Properties of SignedUrlService                                          *)
(***************************************************************************)
\* request p had verify evaluated and holds what it returned
Verified(p) == op[p].name = "verify" /\ pc[p] = "done"

\* C23: verify(assetId, expiry, signature) evaluated at a time past the
\* expiry returns false, for the signature sign(assetId, expiry) made as for
\* every other
C23_ExpiredNeverVerifies ==
    \A p \in Requests :
        (Verified(p) /\ op[p].query.at > op[p].query.expires * 1000)
            => result[p] = Returned(FALSE)

\* the signature made for (assetId, expiry) was presented for that very pair
\* after the expiry and was refused
C23_Witness ==
    /\ Verified("r2")
    /\ op["r2"].query.issuedFor = [id |-> op["r2"].id, expires |-> op["r2"].query.expires]
    /\ op["r2"].query.at > op["r2"].query.expires * 1000
    /\ result["r2"] = Returned(FALSE)

\* C24: a signature made by sign(a, e) is accepted by verify(a2, e2, .) only
\* when a2 = a and e2 = e, for ids with and without the ':' separator
C24_SignatureBoundToPair ==
    \A p \in Requests :
        (Verified(p) /\ op[p].query.issuedFor # NotIssued /\ result[p] = Returned(TRUE))
            => /\ op[p].query.issuedFor.id = op[p].id
               /\ op[p].query.issuedFor.expires = op[p].query.expires

\* the signature of ("a", 11) was presented for ("a1", 1), before either
\* expiry, and refused; the two pairs differ only in where the id ends
C24_Witness ==
    /\ Verified("r2")
    /\ op["r2"].query.issuedFor = [id |-> <<"a">>, expires |-> 11]
    /\ op["r2"].id = <<"a", "1">> /\ op["r2"].query.expires = 1
    /\ op["r2"].query.at <= 1000
    /\ result["r2"] = Returned(FALSE)

(***************************************************************************)
(* Properties of the display-name normalizer                               *)
(***************************************************************************)
\* request p had the normalizer applied in sanitize mode with the default
\* maximal length
Sanitized(p) ==
    /\ op[p].name = "normalizeFilename" /\ pc[p] = "done"
    /\ op[p].input.mode = "sanitize"
    /\ op[p].input.maxLength = DEFAULT_MAX_LENGTH

HasSeparator(s) == \E i \in 1..Len(s) : s[i] \in {"/", "\\"}

\* C25, as stated: in sanitize mode a name that contains a path separator
\* comes back with no path separator, sanitized = true and
\* reason = path_separators_detected
C25_Original ==
    \A p \in Requests :
        (Sanitized(p) /\ HasSeparator(op[p].input.name))
            => /\ ~HasSeparator(result[p].value.filename)
               /\ result[p].value.sanitized
               /\ result[p].value.reason = "path_separators_detected"

\* the characters of the class [A-Z a-z 0-9 . _ -]
AllowedChars ==
    {"a", "b", "c", "d", "e", "f", "g", "h", "i", "j", "k", "l", "m", "n", "o", "p", "q",
     "r", "s", "t", "u", "v", "w", "x", "y", "z", "A", "Z",
     "0", "1", "2", "3", "4", "5", "6", "7", "8", "9", ".", "_", "-"}

\* C26: for every input, the empty one and those with control characters,
\* path separators and characters outside ASCII included, the name the
\* normalizer returns in sanitize mode is non-empty and made only of
\* characters in [A-Z a-z 0-9 . _ -]
C26_NameIsSafe ==
    \A p \in Requests :
        Sanitized(p) =>
            /\ result[p].value.filename # <<>>
            /\ \A i \in 1..Len(result[p].value.filename) :
                  result[p].value.filename[i] \in AllowedChars

\* the name "/" + U+FF0F + line feed, which has a separator, a character that
\* becomes one and a control character, was replaced by a generated name
C26_Witness ==
    /\ Sanitized("r1")
    /\ op["r1"].input.name = <<"/", "<U+FF0F>", "<LF>">>
    /\ result["r1"].value.reason = "fully_sanitized_empty"
    /\ Len(result["r1"].value.filename) > 5

\* upload(input) called on the manager has ended
UploadEnded(p) == op[p].name = "upload" /\ pc[p] = "done"

\* the method request p runs has called this.log with this level and event
HasLogged(p, level, event) ==
    \E i \in 1..Len(loc[p].logs) :
        loc[p].logs[i] = [level |-> level, event |-> event]

\* C27: every upload that succeeds has logged an info-level event, and every
\* upload that fails, whatever the failure (a validation fault included), has
\* logged an error-level event by the time the error reaches the caller
C27_Original ==
    \A p \in Requests :
        UploadEnded(p) =>
            /\ result[p].status = "ok" => HasLogged(p, "info", "UPLOAD_SUCCESS")
            /\ result[p].status = "error" => HasLogged(p, "error", "UPLOAD_FAIL")

\* C28: whatever logger the manager was constructed with (none, one that
\* delivers, one that throws on every call), every step of upload,
\* getMetadataById, getFileById, get and delete is a step the manager takes
\* with a logger that delivers: the same port calls, the same stores, the same
\* result or error
C28_LoggerNeverAffects == [][NextManager("delivers")]_vars

\* the logger throws on every call, upload() called it and returned the record
C28_Witness ==
    /\ logger = "throws"
    /\ UploadEnded("r1")
    /\ result["r1"].status = "ok"
    /\ HasLogged("r1", "info", "UPLOAD_SUCCESS")
    /\ HasLogged("r1", "warn", "DISPLAY_NAME_SANITIZED")

\* request p is an HTTP upload whose handler has called the manager's upload
HandedToManager(p) ==
    op[p].name \in {"expressUpload", "jsonUpload"} /\ op[p].input # NoInput

\* the type the client of the HTTP upload p claims: the part's Content-Type,
\* the mimeType field of the JSON body
ClaimedType(p) ==
    IF op[p].name = "expressUpload" THEN op[p].query.file.mimetype
    ELSE op[p].query.body.mimeType

\* C29: for both HTTP upload handlers, the mimeType handed to the manager's
\* upload is the client's claimed type only when detection in the content
\* gave that same type
C29_Original ==
    \A p \in Requests :
        HandedToManager(p) /\ op[p].input.mimeType = ClaimedType(p) =>
            op[p].query.detected = ClaimedType(p)

\* the upload of request q has saved its bytes and has no record: it is
\* suspended at repository.create, or its repository.create failed
NotCommitted(q) ==
    /\ op[q].name = "upload"
    /\ \/ pc[q] = "u_create"
       \/ pc[q] \in {"u_rollback", "done"} /\ loc[q].err = "RepositoryCreateError"

\* the read of request p got from get(id) the record of q's upload, or a
\* record that points at the bytes q's upload saved
Observes(p, q) ==
    /\ op[p].name \in ReadOps
    /\ loc[p].got # Null
    /\ \/ loc[p].got.id = loc[q].asset.id
       \/ loc[p].got.storagePath = loc[q].stored.storagePath

\* C30: while an upload is between storage.save and repository.create, and
\* after its repository.create failed, its record is in neither the
\* repository nor the cache, and no read, concurrent or later, with any id,
\* has got its record or a record leading to its bytes
C30_PendingNeverObservable ==
    \A q \in Requests :
        NotCommitted(q) =>
            /\ findById(repo, loc[q].asset.id) = Null
            /\ cacheGet(cache, loc[q].asset.id) = Null
            /\ \A p \in Requests : ~Observes(p, q)

\* the upload's repository.create failed and its rollback is still to run, so
\* the bytes are stored; getFileById with the id of that upload found nothing
C30_Witness ==
    /\ NotCommitted("r1") /\ pc["r1"] = "u_rollback"
    /\ storageHas(storage, loc["r1"].stored.storagePath)
    /\ op["r2"].name = "getFileById" /\ op["r2"].id = loc["r1"].asset.id
    /\ pc["r2"] = "done"
    /\ result["r2"] = Returned([status |-> "not_found"])

(***************************************************************************)
(* Properties of the order of port calls                                   *)
(***************************************************************************)
\* the bytes the upload of request p saved are in the storage
BytesRemain(p) == storageHas(storage, loc[p].stored.storagePath)

PortsCalled(p) == [i \in 1..Len(calls[p]) |-> calls[p][i].port]

\* s is t or a beginning of t
IsPrefix(s, t) == Len(s) <= Len(t) /\ \A i \in 1..Len(s) : s[i] = t[i]

\* the port calls of a delete that finds its record and fails nowhere
DeleteOrder ==
    <<"repository.findById", "storage.delete", "repository.deleteById", "cache.delete">>

\* the error each port of delete's try block rejects with
DeleteFailures ==
    {<<"storage.delete", "StorageDeleteError">>,
     <<"repository.deleteById", "RepositoryDeleteError">>,
     <<"cache.delete", "CacheError">>}

\* C32: delete(id) of an existing asset calls storage.delete, repository.deleteById
\* and cache.delete in that order, each after the one before it resolved; when
\* one rejects, delete calls no further port, leaves what the earlier calls
\* removed removed, calls this.log at error level and rejects with that error
C32_DeleteInOrder ==
    \A p \in Requests :
        op[p].name = "delete" =>
            /\ IsPrefix(PortsCalled(p), DeleteOrder)
            /\ pc[p] = "d_storage" => Len(calls[p]) = 1
            /\ pc[p] = "d_repo" =>
                    Len(calls[p]) = 2 /\ ~storageHas(storage, loc[p].asset.storagePath)
            /\ pc[p] = "d_cache" =>
                    /\ Len(calls[p]) = 3
                    /\ ~storageHas(storage, loc[p].asset.storagePath)
                    /\ findById(repo, op[p].id) = Null
            /\ (pc[p] = "done" /\ result[p].status = "error" /\ Len(calls[p]) >= 2) =>
                    /\ <<calls[p][Len(calls[p])].port, result[p].error>> \in DeleteFailures
                    /\ HasLogged(p, "error", "DELETE_FAIL")
                    /\ ~HasLogged(p, "info", "DELETE_SUCCESS")
                    /\ Len(calls[p]) >= 3 => ~storageHas(storage, loc[p].asset.storagePath)
                    /\ Len(calls[p]) = 3 => findById(repo, op[p].id) # Null
                    /\ Len(calls[p]) = 4 => findById(repo, op[p].id) = Null

\* repository.deleteById rejected after storage.delete resolved: the bytes are
\* gone, the record is still there, cache.delete was not called, the failure
\* was logged and the caller got the repository's error
C32_Witness ==
    /\ op["r1"].name = "delete" /\ pc["r1"] = "done"
    /\ PortsCalled("r1") = <<"repository.findById", "storage.delete", "repository.deleteById">>
    /\ result["r1"] = Thrown("RepositoryDeleteError")
    /\ HasLogged("r1", "error", "DELETE_FAIL")
    /\ hasCache
    /\ ~storageHas(storage, loc["r1"].asset.storagePath)
    /\ findById(repo, op["r1"].id) # Null

\* the sequences of port calls of an upload that has ended: one rejected
\* before its try block, one whose storage.save rejected, one committed
\* without and with a cache, one whose repository.create rejected
UploadOrders ==
    {<<>>,
     <<"storage.save">>,
     <<"storage.save", "repository.create">>,
     <<"storage.save", "repository.create", "cache.set">>,
     <<"storage.save", "repository.create", "storage.delete">>}

\* C33: upload calls repository.create only after storage.save resolved and
\* cache.set only after repository.create resolved; when storage.save rejects
\* it calls no other port and rejects with the storage's error; storage.save
\* and repository.create are called at most once
C33_UploadInOrder ==
    \A p \in Requests :
        op[p].name = "upload" =>
            /\ \E o \in UploadOrders : IsPrefix(PortsCalled(p), o)
            /\ pc[p] = "done" => PortsCalled(p) \in UploadOrders
            /\ Cardinality(PortCalls(p, "storage.save")) <= 1
            /\ Cardinality(PortCalls(p, "repository.create")) <= 1
            /\ PortCalls(p, "repository.create") # {} => loc[p].stored # Null
            /\ PortCalls(p, "cache.set") # {} => findById(repo, loc[p].asset.id) # Null
            /\ loc[p].err = "StorageSaveError" =>
                    /\ pc[p] = "done"
                    /\ PortsCalled(p) = <<"storage.save">>
                    /\ result[p] = Thrown("StorageSaveError")

\* storage.save rejected: upload ended with the storage's error after that
\* one port call, and nothing is stored
C33_Witness ==
    /\ op["r1"].name = "upload" /\ pc["r1"] = "done"
    /\ loc["r1"].err = "StorageSaveError"
    /\ PortsCalled("r1") = <<"storage.save">>
    /\ result["r1"] = Thrown("StorageSaveError")
    /\ storage = {} /\ repo = {}

(***************************************************************************)
(* Properties of get(id)                                                   *)
(***************************************************************************)
\* a call of get(id) by p has returned, to a caller that makes no other call
GetReturned(p) ==
    op[p].name = "get" /\ pc[p] = "done" /\ result[p].status = "ok"

\* C34: get(id) of a manager with a cache reads the cache first; on a hit it
\* returns the cached record and does not call repository.findById; on a miss
\* it calls repository.findById and, when that finds a record, calls cache.set
\* with it before it returns it; the value it returns is null exactly when
\* the id is in neither the cache nor the repository
C34_CacheFirst ==
    \A p \in Requests :
        GetReturned(p) =>
            LET id == op[p].id
                value == result[p].value
                ports == PortsCalled(p)
            IN  /\ hasCache => /\ ports # <<>>
                               /\ ports[1] = "cache.get"
                /\ ~hasCache => ports = <<"repository.findById">>
                /\ ports = <<"cache.get">> =>
                        /\ value # Null
                        /\ value = cacheGet(cache, id)
                /\ PortCalls(p, "repository.findById") # {} =>
                        /\ value = findById(repo, id)
                        /\ hasCache /\ value # Null =>
                               ports = <<"cache.get", "repository.findById", "cache.set">>
                        /\ value = Null => PortCalls(p, "cache.set") = {}
                /\ value = Null <=>
                        (cacheGet(cache, id) = Null /\ findById(repo, id) = Null)

\* a cache hit: get(id) returned the cached record after the one port call
C34_Witness ==
    /\ GetReturned("r1")
    /\ hasCache
    /\ PortsCalled("r1") = <<"cache.get">>
    /\ result["r1"].value # Null
    /\ result["r1"].value = cacheGet(cache, op["r1"].id)

(***************************************************************************)
(* Properties of the sign / verify round trip                              *)
(***************************************************************************)
\* the signature p presented was made by sign for the very pair p presented
PresentedOwnSignature(p) ==
    /\ Verified(p)
    /\ op[p].query.issuedFor = [id |-> op[p].id, expires |-> op[p].query.expires]

\* C35: verify(assetId, expiry, sign(assetId, expiry)) returns true whenever
\* it is evaluated at a time t <= expiry * 1000 ms, the signature having been
\* made by one caller's service and verified by another's that holds the
\* same secret
C35_RoundTrip ==
    \A p \in Requests :
        (PresentedOwnSignature(p) /\ op[p].query.at <= op[p].query.expires * 1000)
            => result[p] = Returned(TRUE)

\* a signature made by r1 was verified by r2 at the very instant of a
\* positive expiry and accepted
C35_Witness ==
    /\ PresentedOwnSignature("r2")
    /\ op["r1"].name = "sign"
    /\ op["r2"].query.sig = result["r1"].value
    /\ op["r2"].query.at > 0
    /\ op["r2"].query.at = op["r2"].query.expires * 1000
    /\ result["r2"] = Returned(TRUE)

(***************************************************************************)
(* Properties of the names the normalizer returns                          *)
(***************************************************************************)
\* the normalizer returned to p a name that is not a generated fallback name
NameReturned(p) ==
    /\ op[p].name = "normalizeFilename" /\ pc[p] = "done"
    /\ result[p].value.reason = Undefined

\* what the normalizer returns for the name it returned to p, called with
\* the options p called it with
Renormalized(p) ==
    normalizeFilename(result[p].value.filename, op[p].input.maxLength, DotBin,
                      op[p].input.mode, randomUUID(0))

DotOrUnderscore == {".", "_"}

hasUnderscoreRun(s) == \E i \in 1..(Len(s) - 1) : s[i] = "_" /\ s[i + 1] = "_"

\* the statement of C36 as it was made: a returned name that is not a
\* fallback name neither begins nor ends with '.' or '_', has no run of
\* underscores, and is returned unchanged, sanitized = false, when normalized
\* again
C36_Original ==
    \A p \in Requests :
        NameReturned(p) =>
            LET name == result[p].value.filename
            IN  /\ name[1] \notin DotOrUnderscore
                /\ name[Len(name)] \notin DotOrUnderscore
                /\ ~hasUnderscoreRun(name)
                /\ Renormalized(p).filename = name
                /\ Renormalized(p).sanitized = FALSE

\* C36: a returned name that is not a fallback name does not begin with '.'
\* or '_', has no run of underscores and is no longer than maxLength; it ends
\* with '.' or '_' only when it was cut to maxLength characters, the cut
\* coming after the trim; normalized again it is returned unchanged with
\* sanitized = false when it does not end with '.' or '_', and is changed,
\* sanitized = true, when it does
C36_TrimmedBeforeTruncated ==
    \A p \in Requests :
        NameReturned(p) =>
            LET name == result[p].value.filename
                endsBadly == name[Len(name)] \in DotOrUnderscore
            IN  /\ name # <<>>
                /\ name[1] \notin DotOrUnderscore
                /\ ~hasUnderscoreRun(name)
                /\ Len(name) <= op[p].input.maxLength
                /\ endsBadly =>
                        /\ Len(name) = op[p].input.maxLength
                        /\ Len(name) < Len(op[p].input.name)
                        /\ Renormalized(p).filename # name
                        /\ Renormalized(p).sanitized = TRUE
                /\ ~endsBadly =>
                        /\ Renormalized(p).filename = name
                        /\ Renormalized(p).sanitized = FALSE
                        /\ Renormalized(p).reason = Undefined

\* "a.a" cut to two characters is returned as "a.", which normalizes to "a"
C36_Witness ==
    /\ NameReturned("r1")
    /\ op["r1"].input.name = <<"a", ".", "a">>
    /\ op["r1"].input.maxLength = 2
    /\ result["r1"].value.filename = <<"a", ".">>
    /\ Renormalized("r1").filename = <<"a">>
    /\ Renormalized("r1").sanitized = TRUE

(***************************************************************************)
(* Properties of the rate limiter with any limit                           *)
(***************************************************************************)
\* when the i-th call was made its key had no bucket, or one whose resetAt
\* lay before the time of the call
NoLiveBucketAt(i) ==
    \A j \in 1..(i - 1) :
        checked[j].key = checked[i].key => checked[j].resetAt < checked[i].at

\* the allowed calls that the bucket of the i-th call counted
AllowedOfBucket(i) ==
    {j \in 1..Len(checked) :
        /\ checked[j].key = checked[i].key
        /\ checked[j].resetAt = checked[i].resetAt
        /\ checked[j].allowed}

\* C37: check(key) on a key with no live bucket returns true and leaves the
\* bucket {count = 1, resetAt = now + windowMs} whatever max is; with
\* max <= 0 every bucket of a key allows that one call and no other
C37_OneCallWhateverMax ==
    limiter # NoLimiter =>
        LET n == Len(checked)
        IN  /\ \A i \in 1..n :
                  NoLiveBucketAt(i) =>
                      /\ checked[i].allowed
                      /\ checked[i].resetAt = checked[i].at + limiter.windowMs
            /\ (n > 0 /\ NoLiveBucketAt(n)) =>
                  limiter.buckets[checked[n].key] =
                      [count |-> 1, resetAt |-> checked[n].at + limiter.windowMs]
            /\ limiter.max <= 0 =>
                  \A i \in 1..n :
                      /\ checked[i].allowed <=> NoLiveBucketAt(i)
                      /\ Cardinality(AllowedOfBucket(i)) = 1

\* with max = 0 and a window of 500 ms: the call at 0 passes, the call at 500
\* is denied by the bucket of the first, the call at 1000 passes
C37_Witness ==
    /\ limiter # NoLimiter /\ limiter.max = 0 /\ limiter.windowMs = 500
    /\ Len(checked) = 3
    /\ \A i \in 1..3 : checked[i].key = "k1"
    /\ checked[1].at = 0 /\ checked[1].allowed
    /\ checked[2].at = 500 /\ ~checked[2].allowed
    /\ checked[3].at = 1000 /\ checked[3].allowed
    /\ limiter.buckets["k1"] = [count |-> 1, resetAt |-> 1500]

(***************************************************************************)
(* Properties of private assets stored without an owner                    *)
(***************************************************************************)
\* a read by p has ended whose get(id) returned a private asset that was
\* stored without an ownerId
ReadOwnerless(p, name) ==
    /\ op[p].name = name /\ pc[p] = "done"
    /\ loc[p].got # Null
    /\ loc[p].got.visibility = "private"
    /\ loc[p].got.ownerId = Undefined

\* C38: of a private asset stored without an ownerId, getFileById reads the
\* bytes for a requester that gives no identity, returning status ok with
\* them when the storage has them, and getMetadataById returns it the full
\* projection; a requester that gives any identity gets status forbidden
\* with no storage read, and the redacted projection
C38_AnonymousOwnsOwnerless ==
    \A p \in Requests :
        /\ ReadOwnerless(p, "getFileById") =>
              IF op[p].requester = Undefined
              THEN /\ PortCalls(p, "storage.get") # {}
                   /\ result[p] # Returned([status |-> "forbidden"])
                   /\ loc[p].file # Null =>
                          /\ result[p].status = "ok"
                          /\ result[p].value.status = "ok"
                          /\ result[p].value.file.buffer = loc[p].file.buffer
              ELSE /\ PortCalls(p, "storage.get") = {}
                   /\ result[p] = Returned([status |-> "forbidden"])
        /\ ReadOwnerless(p, "getMetadataById") =>
              IF op[p].requester = Undefined
              THEN result[p] = Returned(toPrivateMetadata(loc[p].got))
              ELSE result[p] = Returned(toPublicMetadata(loc[p].got))

\* a requester without identity was given the bytes of a private asset that
\* has no owner
C38_Witness ==
    /\ ReadOwnerless("r2", "getFileById")
    /\ op["r2"].requester = Undefined
    /\ result["r2"].status = "ok"
    /\ result["r2"].value.status = "ok"
    /\ result["r2"].value.file.buffer = loc["r2"].file.buffer

(***************************************************************************)
(* Properties of delete and the identity of its caller                     *)
(***************************************************************************)
\* a delete by p has ended that found the record of its id
DeleteOfExisting(p) ==
    op[p].name = "delete" /\ pc[p] = "done" /\ loc[p].asset # Null

\* the errors the ports of delete reject with
DeletePortErrors == {f[2] : f \in DeleteFailures}

\* C39: delete makes no ownership or visibility check: a delete that finds
\* the record, whoever owns it, whatever its visibility and whatever identity
\* the request carries, runs the port calls of a delete; it fails only with
\* the error of a port call that failed, and otherwise returns "deleted"
\* with the record and the bytes removed
C39_DeleteUnchecked ==
    \A p \in Requests :
        DeleteOfExisting(p) =>
            /\ PortCalls(p, "storage.delete") # {}
            /\ result[p].status = "error" => result[p].error \in DeletePortErrors
            /\ result[p].status = "ok" =>
                    /\ result[p] = Returned([status |-> "deleted"])
                    /\ findById(repo, op[p].id) = Null
                    /\ ~storageHas(storage, loc[p].asset.storagePath)

\* a request with the identity u2 deleted the private asset of u1
C39_Witness ==
    /\ DeleteOfExisting("r2")
    /\ loc["r2"].asset.visibility = "private"
    /\ loc["r2"].asset.ownerId = "u1"
    /\ op["r2"].requester = "u2"
    /\ result["r2"] = Returned([status |-> "deleted"])
    /\ findById(repo, op["r2"].id) = Null

(***************************************************************************)
(* Properties of signed urls                                               *)
(***************************************************************************)
\* getSignedUrl has ended for p, its get(id) having returned a record
SignedUrlAnswered(p) ==
    op[p].name = "getSignedUrl" /\ pc[p] = "done" /\ loc[p].got # Null

\* p requested a url that getSignedUrl had issued, and was answered
IssuedUrlFollowed(p) == op[p].name = "getFileSigned" /\ pc[p] = "done"

\* the errors get(id) rejects with
GetPortErrors == {"CacheError", "RepositoryFindError"}

\* C40: getSignedUrl issues a url for a private asset to the requester whose
\* identity equals the asset's ownerId and refuses every other, and issues
\* one for a public asset to every requester; a url it issued for a private
\* asset, requested no later than its expiry while the record exists, is
\* answered with ACCESS_DENIED when get(id) returns the record, never with
\* the bytes and without a read of the storage
C40_PrivateUrlNeverHonoured ==
    \A p \in Requests :
        /\ SignedUrlAnswered(p) =>
              IF loc[p].got.visibility = "private" /\ op[p].requester # loc[p].got.ownerId
              THEN result[p] = Thrown("ACCESS_DENIED")
              ELSE /\ result[p].status = "ok"
                   /\ result[p].value.url.id = op[p].id
                   /\ result[p].value.url.sig = sign(op[p].id, result[p].value.expires)
        /\ (/\ IssuedUrlFollowed(p)
            /\ op[p].query.at <= op[p].query.expires.n * 1000
            /\ findById(repo, op[p].id) # Null
            /\ findById(repo, op[p].id).visibility = "private") =>
              /\ result[p].status = "error"
              /\ result[p].error \in {"ACCESS_DENIED"} \cup GetPortErrors
              /\ loc[p].got # Null => result[p] = Thrown("ACCESS_DENIED")
              /\ PortCalls(p, "storage.get") = {}

\* the owner u1 was issued a url for its private asset, requested it before
\* the expiry and was denied
C40_Witness ==
    /\ IssuedUrlFollowed("r1")
    /\ op["r1"].query.issuedTo = "u1"
    /\ op["r1"].query.at <= op["r1"].query.expires.n * 1000
    /\ loc["r1"].got # Null
    /\ loc["r1"].got.visibility = "private"
    /\ loc["r1"].got.ownerId = "u1"
    /\ result["r1"] = Thrown("ACCESS_DENIED")

====
